---- MODULE Spec2Model ----
(***************************************************************************)
(* Reading-unit construction pipeline of deep-reader                       *)
(* (src/src-tauri/src/reading_unit): SegmentBuilder, FeatureExtractor,     *)
(* ScoringEngine, DecisionEngine, FallbackStrategy and ReadingUnitBuilder; *)
(* and the import queue (src/src-tauri/src/import_queue.rs) with the tasks *)
(* of async_import.rs that share it.                                       *)
(*                                                                         *)
(* Representation of the Rust values:                                      *)
(*  - Option<T>: None is <<>>, Some(x) is <<x>>.                           *)
(*  - f64: fixed point.  Per-dimension scores and weights are in tenths    *)
(*    (5.0 is 50, 1.2 is 12), so a product score * weight, total_score and *)
(*    the two score thresholds are in hundredths (3.0 is 300).             *)
(*    position_ratio / position_in_book are in hundredths (0.05 is 5).     *)
(*  - String heading text: a sequence of tokens.  Digits, ".", " " are     *)
(*    one-character tokens; a word ("Chapter", "Copyright") is one token.  *)
(*    CJK characters are written in ASCII: "DI" = U+7B2C, "ZHANG" = U+7AE0,*)
(*    "YI" = U+4E00, "SECT" = U+00A7, and the CJK keywords in pinyin.      *)
(*  - u32 (section-number components): the pair <<v \div 2^16, v % 2^16>>. *)
(*  - ImportTask: its book_id; HashMap<i32, ImportTask>: its set of keys.  *)
(*  - Result<T, E> of a call: a record with ok = TRUE and the value, or    *)
(*    ok = FALSE and the error.                                            *)
(***************************************************************************)
EXTENDS Integers, Sequences, FiniteSets, TLC

VARIABLES
    \* ---- pure pipeline (feature extraction, scoring, decision, fallback)
    pc,              \* "ready" | "piped" | "decided" | "scored" | "totalled" |
                     \* "fallen back" | "numbered" | "typed"
    engine,          \* DecisionEngine { merge_threshold, new_threshold, gray_zone_length }
    weights,         \* ScoringEngine.weights (HashMap<String, f64>)
    fallback,        \* FallbackStrategy { gray_zone_length }
    segment,         \* the Segment handed to the functions
    prev_segment,    \* Option<&Segment>
    features,        \* SegmentFeatures
    score,           \* SegmentScore
    decision,        \* result of make_decision: (MergeDecision, reason, Option<u32>)
    fb_decision,     \* result of FallbackStrategy::apply: (MergeDecision, reason)
    \* ---- ReadingUnitBuilder
    bpc,             \* "idle" | "loop" | "done"
    next_unit_id,    \* ReadingUnitBuilder.next_unit_id (Cell<u32>)
    segments,        \* build's segments argument
    decisions,       \* build's decisions argument
    idx,             \* number of (segment, decision) pairs consumed by the loop
    reading_units,   \* local reading_units
    current_unit,    \* local current_unit: Option<ReadingUnit>
    current_level_1_parent, \* local current_level_1_parent: Option<String>
    build_result,    \* Option<Result<Vec<ReadingUnit>, String>> of the last call
    builds,          \* number of build calls started on this builder
    issued,          \* per build call, in call order: whether it failed and the
                     \* unit ids create_reading_unit formatted during it
    \* ---- FeatureExtractor::extract_numbering_continuity on numbered headings
    num_prev,        \* what the previous heading was written from: Option<[nums, tail]>
    num_curr,        \* what the current heading was written from
    continuity,      \* Option<Option<bool>>: the result of the call, once made
    \* ---- ImportQueue and the tasks of async_import that use it
    tasks,           \* ImportQueue.tasks (VecDeque<ImportTask>), by book_id
    active_tasks,    \* ImportQueue.active_tasks (HashMap<i32, ImportTask>): its keys
    max_concurrent,  \* ImportQueue.max_concurrent
    next_book_id,    \* the next rowid of table books
    importing,       \* import_book_async calls between their INSERT and their enqueue
    wpc,             \* per process_import_queue task: "unspawned" | "dequeue" |
                     \* "mark" | "sleep" | "check_active" | "exited"
    wtask,           \* per process_import_queue task: the task it dequeued
    running,         \* book ids whose spawned process_single_import has not ended
    last_dequeue,    \* the last return of dequeue with the queue it was called on
    dequeued,        \* book ids in the order dequeue handed them out
    enqueued,        \* book ids in the order enqueue accepted them
    \* ---- SegmentBuilder::build_segments
    spc,             \* "idle" | "loop" | "done"
    chapters,        \* build_segments' chapters argument (Parser output)
    chapters_table,  \* what the chapters query gives for each chapter index
    blocks_table,    \* what the MIN/MAX blocks query gives for each chapter id
    sidx,            \* number of chapters consumed by the loop
    seg_list,        \* local segments
    seg_result,      \* Option<Result<Vec<Segment>, String>>
    \* ---- ReadingUnitBuilder::determine_content_type called on its own
    ct_index,        \* its index argument
    ct_total,        \* its total argument
    ct_result        \* Option<Option<ContentType>>: what it returned, once called

pvars == <<pc, engine, weights, fallback, segment, prev_segment, features,
           score, decision, fb_decision>>
bvars == <<bpc, next_unit_id, segments, decisions, idx, reading_units,
           current_unit, current_level_1_parent, build_result, builds,
           issued>>
nvars == <<num_prev, num_curr, continuity>>
qvars == <<tasks, active_tasks, max_concurrent, next_book_id, importing, wpc, wtask, running,
           last_dequeue, dequeued, enqueued>>
svars == <<spc, chapters, chapters_table, blocks_table, sidx, seg_list, seg_result>>
cvars == <<ct_index, ct_total, ct_result>>
xvars == <<nvars, qvars, svars, cvars>>
vars == <<pvars, bvars, xvars>>

(***************************************************************************)
(* Option<T>                                                               *)
(***************************************************************************)
None == <<>>
Some(x) == <<x>>
IsSome(o) == o # <<>>
Unwrap(o) == o[1]

Min(S) == CHOOSE x \in S : \A y \in S : x <= y

(***************************************************************************)
(* Bounds of the model                                                     *)
(***************************************************************************)
\* longest free text appended to a heading prefix, in tokens
MaxTail == 1
\* longest segment list handed to build
MaxSegs == 3
\* largest segment count handed to determine_content_type called on its own
MaxTotal == 40
\* largest component of a section number written into a heading
MaxNum == 3
\* number of books imported through the queue
MaxBooks == 2
\* largest max_concurrent an ImportQueue is built with
MaxConcurrent == 2
\* most chapters of a book handed to build_segments
MaxChapters == 2
\* most build calls made on one ReadingUnitBuilder
MaxBuilds == 3

(***************************************************************************)
(* Heading text and the regular expressions of FeatureExtractor            *)
(***************************************************************************)
Digits == {"0", "1", "2", "3", "4", "5", "6", "7", "8", "9"}
Spaces == {" "}
\* [一二三四五六七八九十0-9]
CnNumerals == {"YI", "ER", "SAN", "SI", "WU", "LIU", "QI", "BA", "JIU", "SHI"} \cup Digits
\* [IVX0-9]
RomanNumerals == {"I", "V", "X"} \cup Digits

\* first position >= i of h holding a token outside class C (Len(h)+1 if none):
\* where a greedy C* starting at i stops
SkipClass(h, i, C) ==
    Min({j \in i..(Len(h) + 1) : j = Len(h) + 1 \/ h[j] \notin C})

\* ^(第\s*[一二三四五六七八九十0-9]+\s*章|Chapter\s+\d+|Part\s+[IVX0-9]+)
strong_heading_regex(h) ==
    /\ Len(h) >= 1
    /\ \/ /\ h[1] = "DI"
          /\ LET a == SkipClass(h, 2, Spaces)
                 b == SkipClass(h, a, CnNumerals)
                 c == SkipClass(h, b, Spaces)
             IN  b > a /\ c <= Len(h) /\ h[c] = "ZHANG"
       \/ /\ h[1] = "Chapter"
          /\ LET a == SkipClass(h, 2, Spaces)
             IN  a > 2 /\ a <= Len(h) /\ h[a] \in Digits
       \/ /\ h[1] = "Part"
          /\ LET a == SkipClass(h, 2, Spaces)
             IN  a > 2 /\ a <= Len(h) /\ h[a] \in RomanNumerals

\* ^(\d+\.\d+|\d+\.\d+\.\d+|§\s*\d+)
weak_heading_regex(h) ==
    /\ Len(h) >= 1
    /\ \/ LET a == SkipClass(h, 1, Digits)
          IN  a > 1 /\ a + 1 <= Len(h) /\ h[a] = "." /\ h[a + 1] \in Digits
       \/ /\ h[1] = "SECT"
          /\ LET a == SkipClass(h, 2, Spaces)
             IN  a <= Len(h) /\ h[a] \in Digits

\* str::to_lowercase on the tokens of the model
LowerTable ==
    [t \in {"Chapter", "Part", "I", "V", "X", "Copyright", "ISBN", "Contents",
            "TOC", "Introduction", "Preface", "Summary"} |->
        CASE t = "Chapter" -> "chapter"
          [] t = "Part" -> "part"
          [] t = "I" -> "i"
          [] t = "V" -> "v"
          [] t = "X" -> "x"
          [] t = "Copyright" -> "copyright"
          [] t = "ISBN" -> "isbn"
          [] t = "Contents" -> "contents"
          [] t = "TOC" -> "toc"
          [] t = "Introduction" -> "introduction"
          [] t = "Preface" -> "preface"
          [] t = "Summary" -> "summary"]
to_lowercase(h) ==
    [i \in 1..Len(h) |-> IF h[i] \in DOMAIN LowerTable THEN LowerTable[h[i]] ELSE h[i]]

\* keyword lists, after keyword.to_lowercase()
copyright_keywords ==
    {"isbn", "all rights reserved", "copyright", "banquan", "chubanshe",
     "yinshua", "faxing", "cip", "(c)", "banquansuoyou"}
toc_keywords == {"mulu", "daohang", "contents", "toc", "table of contents"}
preface_keywords ==
    {"xu", "xuyan", "qianyan", "zhixie", "mingxie", "daodu", "yinyan",
     "preface", "foreword", "introduction", "acknowledgments", "summary"}

\* the word tokens that hold a shorter keyword as a substring
Substrings ==
    {<<"banquansuoyou", "banquan">>, <<"xuyan", "xu">>,
     <<"table of contents", "contents">>}
\* str::contains: the keyword occurs in the text
contains(text, keyword) ==
    \E i \in 1..Len(text) : text[i] = keyword \/ <<text[i], keyword>> \in Substrings

(***************************************************************************)
(* FeatureExtractor                                                        *)
(***************************************************************************)
extract_heading_strength(seg) ==
    IF IsSome(seg.heading) /\ strong_heading_regex(Unwrap(seg.heading)) THEN "Strong"
    ELSE IF IsSome(seg.heading) /\ weak_heading_regex(Unwrap(seg.heading)) THEN "Weak"
    ELSE "None"

extract_length_feature(seg) ==
    IF seg.length <= 299 THEN "VeryShort"
    ELSE IF seg.length <= 799 THEN "Short"
    ELSE IF seg.length <= 1999 THEN "Medium"
    ELSE IF seg.length <= 5999 THEN "Long"
    ELSE "VeryLong"

extract_content_feature(seg) ==
    IF IsSome(seg.heading)
    THEN LET text == to_lowercase(Unwrap(seg.heading))
         IN  IF \E k \in copyright_keywords : contains(text, k) THEN "Copyright"
             ELSE IF \E k \in toc_keywords : contains(text, k) THEN "Toc"
             ELSE IF \E k \in preface_keywords : contains(text, k) THEN "Preface"
             ELSE "Body"
    ELSE "Body"

\* is_after_strong_heading matching the weak heading pattern
is_after_strong_heading_weak(prev) ==
    /\ IsSome(prev)
    /\ IsSome(Unwrap(prev).heading)
    /\ weak_heading_regex(Unwrap(Unwrap(prev).heading))

is_after_strong_heading(prev) ==
    /\ IsSome(prev)
    /\ IsSome(Unwrap(prev).heading)
    /\ strong_heading_regex(Unwrap(Unwrap(prev).heading))

is_consecutive_strong_heading(seg, prev) ==
    LET current_is_strong ==
            IsSome(seg.heading) /\ strong_heading_regex(Unwrap(seg.heading))
        prev_is_strong ==
            /\ IsSome(prev)
            /\ IsSome(Unwrap(prev).heading)
            /\ strong_heading_regex(Unwrap(Unwrap(prev).heading))
    IN  current_is_strong /\ prev_is_strong

DigitVal(t) == CHOOSE n \in 0..9 : ToString(n) = t

\* u32: a value v is the pair <<v \div 2^16, v % 2^16>>, so that u32::MAX
\* (4294967295) is <<65535, 65535>>
U32(n) == <<n \div 65536, n % 65536>>
u32_MAX == <<65535, 65535>>

\* str::parse::<u32> of the digit run h[i..j-1]: Some(value), or None for the
\* Err of a run whose value does not fit a u32
RECURSIVE DigitsValue(_, _, _)
DigitsValue(h, i, j) ==
    IF j <= i THEN Some(U32(0))
    ELSE LET r == DigitsValue(h, i, j - 1)
         IN  IF r = None THEN None
             ELSE LET lo == Unwrap(r)[2] * 10 + DigitVal(h[j - 1])
                      hi == Unwrap(r)[1] * 10 + lo \div 65536
                  IN  IF hi > 65535 THEN None ELSE Some(<<hi, lo % 65536>>)
parse_u32(h, i, j) == DigitsValue(h, i, j)

\* the components of the match of ^(\d+(?:\.\d+)*) from the digit run at i,
\* split on '.', each parsed, the unparseable ones dropped (filter_map)
RECURSIVE SectionComponents(_, _)
SectionComponents(h, i) ==
    LET a == SkipClass(h, i, Digits)
        here == parse_u32(h, i, a)
    IN  IF a + 1 <= Len(h) /\ h[a] = "." /\ h[a + 1] \in Digits
        THEN here \o SectionComponents(h, a + 1)
        ELSE here

extract_section_number(seg) ==
    IF /\ IsSome(seg.heading)
       /\ Len(Unwrap(seg.heading)) >= 1
       /\ Unwrap(seg.heading)[1] \in Digits
       /\ SectionComponents(Unwrap(seg.heading), 1) # <<>>
    THEN Some(SectionComponents(Unwrap(seg.heading), 1))
    ELSE None

\* prev_last + 1 on u32 where the build wraps (overflow checks off, the
\* release profile)
wrapping_add_one(v) ==
    IF v = u32_MAX THEN U32(0)
    ELSE IF v[2] = 65535 THEN <<v[1] + 1, 0>>
    ELSE <<v[1], v[2] + 1>>

\* is_continuous_numbering as built without overflow checks
is_continuous_numbering(prev, curr) ==
    IF Len(prev) # Len(curr) THEN FALSE
    ELSE IF Len(prev) >= 1 /\ curr[Len(curr)] = wrapping_add_one(prev[Len(prev)])
         THEN SubSeq(prev, 1, Len(prev) - 1) = SubSeq(curr, 1, Len(curr) - 1)
         ELSE FALSE

\* is_continuous_numbering as built with overflow checks (the dev profile)
\* panics at prev_last + 1 when prev_last is u32::MAX
is_continuous_numbering_panics(prev, curr) ==
    /\ Len(prev) = Len(curr)
    /\ Len(prev) >= 1
    /\ prev[Len(prev)] = u32_MAX

extract_numbering_continuity(seg, prev) ==
    LET current_number == extract_section_number(seg)
        prev_number == IF IsSome(prev) THEN extract_section_number(Unwrap(prev)) ELSE None
    IN  IF IsSome(current_number) /\ IsSome(prev_number)
        THEN Some(is_continuous_numbering(Unwrap(prev_number), Unwrap(current_number)))
        ELSE None

\* the call panics in a build with overflow checks
extract_numbering_continuity_panics(seg, prev) ==
    LET current_number == extract_section_number(seg)
        prev_number == IF IsSome(prev) THEN extract_section_number(Unwrap(prev)) ELSE None
    IN  /\ IsSome(current_number)
        /\ IsSome(prev_number)
        /\ is_continuous_numbering_panics(Unwrap(prev_number), Unwrap(current_number))

extract_features(seg, prev) ==
    [toc_feature |-> seg.toc_level,
     heading_feature |-> extract_heading_strength(seg),
     length_feature |-> extract_length_feature(seg),
     content_feature |-> extract_content_feature(seg),
     position_in_book |-> seg.position_ratio,
     is_after_strong_heading |-> is_after_strong_heading(prev),
     is_consecutive_strong_heading |-> is_consecutive_strong_heading(seg, prev),
     numbering_continuity |-> extract_numbering_continuity(seg, prev)]

(***************************************************************************)
(* SegmentScore and ScoringEngine                                          *)
(***************************************************************************)
\* SegmentScore::new()
NewScore ==
    [toc_score |-> None, heading_score |-> None, length_score |-> None,
     content_score |-> None, position_score |-> None, continuity_score |-> None,
     total_score |-> 0]

\* ScoringEngine::new(): toc 1.5, heading 1.2, length 1.0, content 1.0,
\* position 0.8, continuity 0.8
DefaultWeights ==
    [toc |-> 15, heading |-> 12, length |-> 10, content |-> 10,
     position |-> 8, continuity |-> 8]

\* one step of calculate_total:
\*   if let Some(score) = s { if let Some(&weight) = weights.get(key) { total += score * weight } }
AddWeighted(total, s, w, key) ==
    IF IsSome(s) /\ key \in DOMAIN w THEN total + Unwrap(s) * w[key] ELSE total

\* calculate_total with the continuity score weighted by the position weight
calculate_total_swapped(sc, w) ==
    LET t1 == AddWeighted(0, sc.toc_score, w, "toc")
        t2 == AddWeighted(t1, sc.heading_score, w, "heading")
        t3 == AddWeighted(t2, sc.length_score, w, "length")
        t4 == AddWeighted(t3, sc.content_score, w, "content")
        t5 == AddWeighted(t4, sc.position_score, w, "position")
        t6 == AddWeighted(t5, sc.continuity_score, w, "position")
    IN  [sc EXCEPT !.total_score = t6]

calculate_total(sc, w) ==
    LET t1 == AddWeighted(0, sc.toc_score, w, "toc")
        t2 == AddWeighted(t1, sc.heading_score, w, "heading")
        t3 == AddWeighted(t2, sc.length_score, w, "length")
        t4 == AddWeighted(t3, sc.content_score, w, "content")
        t5 == AddWeighted(t4, sc.position_score, w, "position")
        t6 == AddWeighted(t5, sc.continuity_score, w, "continuity")
    IN  [sc EXCEPT !.total_score = t6]

calculate_toc_score(f) ==
    IF IsSome(f.toc_feature)
    THEN Some(CASE Unwrap(f.toc_feature) = 1 -> -30
                [] Unwrap(f.toc_feature) = 2 -> 10
                [] OTHER -> 20)
    ELSE None

\* calculate_heading_score with the sign of the Strong score lost
calculate_heading_score_flipped(f) ==
    CASE f.heading_feature = "Strong" -> 30
      [] f.heading_feature = "Weak" -> 20
      [] f.heading_feature = "None" -> 10

calculate_heading_score(f) ==
    CASE f.heading_feature = "Strong" -> -30
      [] f.heading_feature = "Weak" -> 20
      [] f.heading_feature = "None" -> 10

calculate_length_score(f) ==
    CASE f.length_feature = "VeryShort" -> 30
      [] f.length_feature = "Short" -> 20
      [] f.length_feature = "Medium" -> 0
      [] f.length_feature = "Long" -> -10
      [] f.length_feature = "VeryLong" -> -20

\* calculate_content_score with a preface scored below the forced-merge value
calculate_content_score_soft_preface(f) ==
    CASE f.content_feature = "Copyright" -> 50
      [] f.content_feature = "Toc" -> 50
      [] f.content_feature = "Preface" -> 30
      [] f.content_feature = "Body" -> 0

calculate_content_score(f) ==
    CASE f.content_feature = "Copyright" -> 50
      [] f.content_feature = "Toc" -> 50
      [] f.content_feature = "Preface" -> 50
      [] f.content_feature = "Body" -> 0

calculate_position_score(f) ==
    LET s1 == IF f.position_in_book < 5 /\ f.heading_feature # "Strong" THEN 20 ELSE 0
        s2 == IF f.position_in_book > 95 THEN s1 + 10 ELSE s1
        s3 == IF f.is_after_strong_heading THEN s2 + 10 ELSE s2
        s4 == IF f.is_consecutive_strong_heading THEN s3 - 10 ELSE s3
    IN  s4

calculate_continuity_score(f) ==
    IF IsSome(f.numbering_continuity)
    THEN Some(IF Unwrap(f.numbering_continuity) THEN 20 ELSE -10)
    ELSE None

calculate_score(w, f) ==
    calculate_total(
        [toc_score |-> calculate_toc_score(f),
         heading_score |-> Some(calculate_heading_score(f)),
         length_score |-> Some(calculate_length_score(f)),
         content_score |-> Some(calculate_content_score(f)),
         position_score |-> Some(calculate_position_score(f)),
         continuity_score |-> calculate_continuity_score(f),
         total_score |-> 0],
        w)

(***************************************************************************)
(* DecisionEngine                                                          *)
(***************************************************************************)
\* DecisionEngine::new(): merge 3.0, new -3.0, gray zone 800
DefaultEngine ==
    [merge_threshold |-> 300, new_threshold |-> -300, gray_zone_length |-> 800]

\* determine_level that gives a third level to a segment without heading
determine_level_three_levels(f, seg) ==
    IF f.heading_feature = "Strong" THEN 1
    ELSE IF f.heading_feature = "Weak" THEN 2
    ELSE 3

\* determine_level with the two heading strengths exchanged
determine_level_swapped(f, seg) ==
    IF f.heading_feature = "Strong" THEN 2
    ELSE IF f.heading_feature = "Weak" THEN 1
    ELSE 1

determine_level(f, seg) ==
    IF f.heading_feature = "Strong" THEN 1
    ELSE IF f.heading_feature = "Weak" THEN 2
    ELSE 1

\* forced_merge with > in place of >=
forced_merge_strict(sc) ==
    IsSome(sc.content_score) /\ Unwrap(sc.content_score) > 50

\* priority 1: content_score >= 5.0
forced_merge(sc) ==
    IsSome(sc.content_score) /\ Unwrap(sc.content_score) >= 50

\* toc_level_1_rule with TOC levels taken as 0-based
toc_level_1_rule_zero_based(f) ==
    /\ IsSome(f.toc_feature)
    /\ Unwrap(f.toc_feature) = 0
    /\ f.content_feature \notin {"Copyright", "Toc", "Preface"}

\* priority 2: TOC level 1 and not metadata
toc_level_1_rule(f) ==
    /\ IsSome(f.toc_feature)
    /\ Unwrap(f.toc_feature) = 1
    /\ f.content_feature \notin {"Copyright", "Toc", "Preface"}

\* toc_level_2_rule with the metadata exclusion of the level-1 rule
toc_level_2_rule_not_metadata(f) ==
    /\ IsSome(f.toc_feature)
    /\ Unwrap(f.toc_feature) = 2
    /\ f.content_feature \notin {"Copyright", "Toc", "Preface"}

\* priority 3: TOC level 2
toc_level_2_rule(f) ==
    IsSome(f.toc_feature) /\ Unwrap(f.toc_feature) = 2

\* gray_zone_merge with <= in place of <
gray_zone_merge_inclusive(e, seg) ==
    seg.length <= e.gray_zone_length

\* gray zone: the length tie-break
gray_zone_merge(e, seg) ==
    seg.length < e.gray_zone_length

\* the reason string is kept as its format template and its arguments
make_decision(e, sc, f, seg) ==
    IF forced_merge(sc)
    THEN [decision |-> "Merge", reason |-> <<"metadata, forced merge">>, level |-> None]
    ELSE IF toc_level_1_rule(f)
    THEN [decision |-> "CreateNew", reason |-> <<"TOC level 1, new chapter">>,
          level |-> Some(1)]
    ELSE IF toc_level_2_rule(f)
    THEN [decision |-> "CreateNew", reason |-> <<"TOC level 2, new section">>,
          level |-> Some(2)]
    ELSE IF sc.total_score >= e.merge_threshold
    THEN [decision |-> "Merge",
          reason |-> <<"total >= merge", sc.total_score, e.merge_threshold>>,
          level |-> None]
    ELSE IF sc.total_score <= e.new_threshold
    THEN [decision |-> "CreateNew",
          reason |-> <<"total <= new", sc.total_score, e.new_threshold>>,
          level |-> Some(determine_level(f, seg))]
    ELSE IF gray_zone_merge(e, seg)
    THEN [decision |-> "Merge",
          reason |-> <<"gray zone, merge", seg.length, e.gray_zone_length>>,
          level |-> None]
    ELSE [decision |-> "CreateNew",
          reason |-> <<"gray zone, new chapter", seg.length, e.gray_zone_length>>,
          level |-> Some(determine_level(f, seg))]

(***************************************************************************)
(* FallbackStrategy                                                        *)
(***************************************************************************)
\* FallbackStrategy::new(): gray zone 800
DefaultFallback == [gray_zone_length |-> 800]

\* apply that tests the length before the heading
FallbackStrategy_apply_length_first(fb, seg) ==
    IF seg.length < fb.gray_zone_length
    THEN [decision |-> "Merge",
          reason |-> <<"fallback: merge", seg.length, fb.gray_zone_length>>]
    ELSE IF IsSome(seg.heading) /\ strong_heading_regex(Unwrap(seg.heading))
    THEN [decision |-> "CreateNew", reason |-> <<"fallback: strong heading">>]
    ELSE [decision |-> "CreateNew",
          reason |-> <<"fallback: new chapter", seg.length, fb.gray_zone_length>>]

FallbackStrategy_apply(fb, seg) ==
    IF IsSome(seg.heading) /\ strong_heading_regex(Unwrap(seg.heading))
    THEN [decision |-> "CreateNew", reason |-> <<"fallback: strong heading">>]
    ELSE IF seg.length < fb.gray_zone_length
    THEN [decision |-> "Merge",
          reason |-> <<"fallback: merge", seg.length, fb.gray_zone_length>>]
    ELSE [decision |-> "CreateNew",
          reason |-> <<"fallback: new chapter", seg.length, fb.gray_zone_length>>]

(***************************************************************************)
(* Inputs of the pure functions                                            *)
(***************************************************************************)
HeadingPrefixes ==
    {<<>>,
     <<"Chapter", " ", "1">>,      \* strong
     <<"Chapter", "1">>,           \* no whitespace: not strong
     <<"DI", "YI", "ZHANG">>,      \* strong
     <<"Part", " ", "I">>,         \* strong
     <<"1", ".", "1">>,            \* weak, numbered
     <<"SECT", "1">>}              \* weak, not numbered
TailTokens == {"x", "Copyright", "Contents", "Introduction"}
Tails == UNION {[1..n -> TailTokens] : n \in 0..MaxTail}
Headings == {p \o t : p \in HeadingPrefixes, t \in Tails}

LengthVals == {100, 299, 300, 799, 800, 2000, 6000}
PositionVals == {0, 50, 100}
TocLevels == {None, Some(1), Some(2), Some(3)}

MkSegment(h, len, pos, toc) ==
    [id |-> "test-seg", chapter_id |-> 1, heading |-> h, length |-> len,
     position_ratio |-> pos, toc_level |-> toc, source_format |-> "Epub",
     start_block_id |-> 1, end_block_id |-> 1]

PipelineSegments ==
    {MkSegment(h, len, pos, toc) :
        h \in {None} \cup {Some(x) : x \in Headings},
        len \in LengthVals, pos \in PositionVals, toc \in TocLevels}

\* extract_features reads only the heading of the previous segment
PrevSegments ==
    {None} \cup
    {Some(MkSegment(h, 1000, 50, None)) :
        h \in {None, Some(<<"Chapter", " ", "1">>), Some(<<"1", ".", "1">>),
               Some(<<"x">>)}}

WeightTables ==
    {DefaultWeights,
     [toc |-> 20, heading |-> 5, length |-> 0, content |-> -10,
      position |-> 3, continuity |-> 7],
     [heading |-> 12, position |-> 8]}

EngineConfigs ==
    {DefaultEngine,
     [merge_threshold |-> 150, new_threshold |-> -50, gray_zone_length |-> 500]}

HeadingStrengths == {"Strong", "Weak", "None"}
LengthFeatures == {"VeryShort", "Short", "Medium", "Long", "VeryLong"}
ContentFeatures == {"Copyright", "Toc", "Preface", "Body"}

\* arguments of make_decision chosen independently of one another
TotalVals == {-1000, -301, -300, -299, -50, -49, 0, 149, 150, 299, 300, 301}
ContentScoreVals == {None, Some(0), Some(49), Some(50), Some(51)}
DecideLengths == {0, 499, 500, 799, 800, 801, 6000}
DecideScores ==
    {[NewScore EXCEPT !.total_score = t, !.content_score = c] :
        t \in TotalVals, c \in ContentScoreVals}
DecideFeatures ==
    {[toc_feature |-> toc, heading_feature |-> hs, length_feature |-> "Medium",
      content_feature |-> cf, position_in_book |-> 50,
      is_after_strong_heading |-> FALSE, is_consecutive_strong_heading |-> FALSE,
      numbering_continuity |-> None] :
        toc \in TocLevels, hs \in HeadingStrengths, cf \in ContentFeatures}

\* arguments of calculate_score / calculate_total chosen freely
ScoreFeatures ==
    {[toc_feature |-> toc, heading_feature |-> hs, length_feature |-> lf,
      content_feature |-> cf, position_in_book |-> pos,
      is_after_strong_heading |-> a, is_consecutive_strong_heading |-> c,
      numbering_continuity |-> nc] :
        toc \in TocLevels, hs \in HeadingStrengths, lf \in LengthFeatures,
        cf \in ContentFeatures, pos \in {0, 5, 50, 95, 100},
        a \in BOOLEAN, c \in BOOLEAN, nc \in {None, Some(TRUE), Some(FALSE)}}
DimVals == {None, Some(-30), Some(25)}
FreeScores ==
    {[toc_score |-> a, heading_score |-> b, length_score |-> c,
      content_score |-> d, position_score |-> e, continuity_score |-> f,
      total_score |-> t] :
        a \in DimVals, b \in DimVals, c \in DimVals, d \in DimVals,
        e \in DimVals, f \in DimVals, t \in {0, 777}}

(***************************************************************************)
(* Actions on the pure pipeline                                            *)
(***************************************************************************)
InitPipelineVars ==
    /\ pc = "ready"
    /\ engine = DefaultEngine
    /\ weights = DefaultWeights
    /\ fallback = DefaultFallback
    /\ segment = None
    /\ prev_segment = None
    /\ features = None
    /\ score = NewScore
    /\ decision = None
    /\ fb_decision = None

InitBuilderVars ==
    /\ bpc = "idle"
    /\ next_unit_id = 1
    /\ segments = <<>>
    /\ decisions = <<>>
    /\ idx = 0
    /\ reading_units = <<>>
    /\ current_unit = None
    /\ current_level_1_parent = None
    /\ build_result = None
    /\ builds = 0
    /\ issued = <<>>

InitNumberingVars ==
    /\ num_prev = None
    /\ num_curr = None
    /\ continuity = None

\* the process_import_queue tasks: each import_book_async spawns one, named
\* here by the book of that call
Workers == 1..MaxBooks

\* ImportQueue::new(m), no import requested yet
ImportQueue_new(m) ==
    /\ tasks = <<>>
    /\ active_tasks = {}
    /\ max_concurrent = m
    /\ next_book_id = 1
    /\ importing = {}
    /\ wpc = [w \in Workers |-> "unspawned"]
    /\ wtask = [w \in Workers |-> None]
    /\ running = {}
    /\ last_dequeue = None
    /\ dequeued = <<>>
    /\ enqueued = <<>>

\* SegmentBuilder::new(book_id) before build_segments is called on a database
InitSegmentBuilderVars ==
    /\ spc = "idle"
    /\ sidx = 0
    /\ seg_list = <<>>
    /\ seg_result = None

InitContentTypeVars ==
    /\ ct_index = 0
    /\ ct_total = 0
    /\ ct_result = None

\* a database without chapters
NoChapters ==
    /\ chapters = <<>>
    /\ chapters_table = <<>>
    /\ blocks_table = <<>>

\* the application at start: app.manage(ImportQueue::new(3)), nothing called yet
Init ==
    /\ InitPipelineVars
    /\ InitBuilderVars
    /\ InitNumberingVars
    /\ ImportQueue_new(3)
    /\ InitSegmentBuilderVars
    /\ NoChapters
    /\ InitContentTypeVars

\* ScoringEngine::set_weights
SetWeights ==
    /\ pc = "ready"
    /\ \E w \in WeightTables : weights' = w
    /\ UNCHANGED <<pc, engine, fallback, segment, prev_segment, features, score,
                   decision, fb_decision>>
    /\ UNCHANGED <<bvars, xvars>>

\* DecisionEngine::set_thresholds
SetThresholds ==
    /\ pc = "ready"
    /\ \E e \in EngineConfigs : engine' = e
    /\ UNCHANGED <<pc, weights, fallback, segment, prev_segment, features, score,
                   decision, fb_decision>>
    /\ UNCHANGED <<bvars, xvars>>

\* the per-segment body of the pipeline (extract_features, calculate_score,
\* make_decision) and FallbackStrategy::apply on the same segment
RunPipeline ==
    /\ pc = "ready"
    /\ \E s \in PipelineSegments, p \in PrevSegments :
        LET f == extract_features(s, p)
            sc == calculate_score(weights, f)
        IN  /\ segment' = s
            /\ prev_segment' = p
            /\ features' = f
            /\ score' = sc
            /\ decision' = Some(make_decision(engine, sc, f, s))
            /\ fb_decision' = Some(FallbackStrategy_apply(fallback, s))
    /\ pc' = "piped"
    /\ UNCHANGED <<engine, weights, fallback>>
    /\ UNCHANGED <<bvars, xvars>>

\* DecisionEngine::make_decision on any (score, features, segment)
MakeDecision ==
    /\ pc = "ready"
    /\ \E sc \in DecideScores, f \in DecideFeatures, len \in DecideLengths :
        LET s == MkSegment(Some(<<"x">>), len, 50, None)
        IN  /\ segment' = s
            /\ features' = f
            /\ score' = sc
            /\ decision' = Some(make_decision(engine, sc, f, s))
    /\ pc' = "decided"
    /\ UNCHANGED <<engine, weights, fallback, prev_segment, fb_decision>>
    /\ UNCHANGED <<bvars, xvars>>

\* ScoringEngine::calculate_score on any features
CalculateScore ==
    /\ pc = "ready"
    /\ \E f \in ScoreFeatures :
        /\ features' = f
        /\ score' = calculate_score(weights, f)
    /\ pc' = "scored"
    /\ UNCHANGED <<engine, weights, fallback, segment, prev_segment, decision,
                   fb_decision>>
    /\ UNCHANGED <<bvars, xvars>>

\* SegmentScore::calculate_total on any score and weight table
CalculateTotal ==
    /\ pc = "ready"
    /\ \E sc \in FreeScores : score' = calculate_total(sc, weights)
    /\ pc' = "totalled"
    /\ UNCHANGED <<engine, weights, fallback, segment, prev_segment, features,
                   decision, fb_decision>>
    /\ UNCHANGED <<bvars, xvars>>

NextPipeline == SetWeights \/ RunPipeline
SpecPipeline == Init /\ [][NextPipeline]_vars

\* FallbackStrategy::set_gray_zone_length
SetGrayZoneLength ==
    /\ pc = "ready"
    /\ \E len \in {300, 800} : fallback' = [gray_zone_length |-> len]
    /\ UNCHANGED <<pc, engine, weights, segment, prev_segment, features, score,
                   decision, fb_decision>>
    /\ UNCHANGED <<bvars, xvars>>

\* FallbackStrategy::apply on any segment
ApplyFallback ==
    /\ pc = "ready"
    /\ \E s \in PipelineSegments :
        /\ segment' = s
        /\ fb_decision' = Some(FallbackStrategy_apply(fallback, s))
    /\ pc' = "fallen back"
    /\ UNCHANGED <<engine, weights, fallback, prev_segment, features, score,
                   decision>>
    /\ UNCHANGED <<bvars, xvars>>

NextFallback == SetGrayZoneLength \/ ApplyFallback
SpecFallback == Init /\ [][NextFallback]_vars

NextDecide == SetThresholds \/ MakeDecision
SpecDecide == Init /\ [][NextDecide]_vars

NextScore == SetWeights \/ CalculateScore \/ CalculateTotal
SpecScore == Init /\ [][NextScore]_vars

(***************************************************************************)
(* extract_numbering_continuity on numbered headings                       *)
(***************************************************************************)
\* the decimal text of a number below 100
decimal(n) ==
    IF n < 10 THEN <<ToString(n)>> ELSE <<ToString(n \div 10), ToString(n % 10)>>

\* the components written into headings: their text and the number it denotes
Components ==
    {[text |-> decimal(n), num |-> U32(n)] : n \in (0..MaxNum) \cup {9, 10}} \cup
    {[text |-> <<"4", "2", "9", "4", "9", "6", "7", "2", "9", "4">>,
      num |-> <<65535, 65534>>],
     [text |-> <<"4", "2", "9", "4", "9", "6", "7", "2", "9", "5">>,
      num |-> u32_MAX]}
SmallComponents == {c \in Components : c.num[1] = 0 /\ c.num[2] \in 1..MaxNum}

\* a heading written from a section number: the components joined by "."
NumberedHeading(cs, tail) ==
    [text |-> Some((IF Len(cs) = 1 THEN cs[1].text
                    ELSE IF Len(cs) = 2 THEN cs[1].text \o <<".">> \o cs[2].text
                    ELSE cs[1].text \o <<".">> \o cs[2].text \o <<".">> \o cs[3].text)
                   \o tail),
     nums |-> Some([k \in 1..Len(cs) |-> cs[k].num])]

\* headings with a leading section number of one to three components, with
\* what follows the number; headings without one; no heading at all
NumberedHeadings ==
    {NumberedHeading(cs, <<>>) : cs \in [1..1 -> Components] \cup [1..2 -> Components]
                                          \cup [1..3 -> SmallComponents]} \cup
    {NumberedHeading(<<c, c>>, t) :
        c \in SmallComponents, t \in {<<" ", "x">>, <<".">>, <<".", "x">>}} \cup
    {[text |-> t, nums |-> None] :
        t \in {None, Some(<<>>), Some(<<"x">>), Some(<<"Chapter", " ", "1">>),
               Some(<<".", "1">>),
               Some(<<"4", "2", "9", "4", "9", "6", "7", "2", "9", "6">>)}}

\* FeatureExtractor::extract_numbering_continuity on a segment and the one
\* before it (or none); the build has overflow checks on or off
ExtractNumberingContinuity ==
    /\ pc = "ready"
    /\ \E c \in NumberedHeadings, p \in {None} \cup {Some(h) : h \in NumberedHeadings},
          overflow_checks \in BOOLEAN :
        LET seg == MkSegment(c.text, 1000, 50, None)
            prev == IF IsSome(p)
                    THEN Some(MkSegment(Unwrap(p).text, 1000, 0, None))
                    ELSE None
        IN  /\ segment' = seg
            /\ prev_segment' = prev
            /\ num_curr' = Some(c)
            /\ num_prev' = p
            /\ continuity' =
                  IF overflow_checks /\ extract_numbering_continuity_panics(seg, prev)
                  THEN Some([panicked |-> TRUE, value |-> None])
                  ELSE Some([panicked |-> FALSE,
                             value |-> extract_numbering_continuity(seg, prev)])
    /\ pc' = "numbered"
    /\ UNCHANGED <<engine, weights, fallback, features, score, decision, fb_decision>>
    /\ UNCHANGED <<bvars, qvars, svars, cvars>>

NextNumbering == ExtractNumberingContinuity
SpecNumbering == Init /\ [][NextNumbering]_vars

(***************************************************************************)
(* ImportQueue and the tasks of async_import                               *)
(***************************************************************************)
\* ImportQueue::enqueue: tasks.push_back(task)
enqueue(q, book_id) == Append(q, book_id)

\* dequeue that takes the newest task
dequeue_pop_back(q, active, max) ==
    IF Cardinality(active) >= max \/ q = <<>>
    THEN [result |-> None, tasks |-> q]
    ELSE [result |-> Some(q[Len(q)]), tasks |-> SubSeq(q, 1, Len(q) - 1)]

\* ImportQueue::dequeue under both locks: the value returned and the queue left
dequeue(q, active, max) ==
    IF Cardinality(active) >= max
    THEN [result |-> None, tasks |-> q]
    ELSE IF q = <<>>
         THEN [result |-> None, tasks |-> q]
         ELSE [result |-> Some(Head(q)), tasks |-> Tail(q)]

\* ImportQueue::mark_active: active.insert(task.book_id, task)
mark_active(active, book_id) == active \cup {book_id}

\* mark_completed that leaves the task in the active set
mark_completed_no_remove(active, book_id) == active

\* ImportQueue::mark_completed: active.remove(&book_id)
mark_completed(active, book_id) == active \ {book_id}

\* import_book_async up to its INSERT: the book gets the next rowid
InsertBook ==
    /\ next_book_id <= MaxBooks
    /\ importing' = importing \cup {next_book_id}
    /\ next_book_id' = next_book_id + 1
    /\ UNCHANGED <<tasks, active_tasks, max_concurrent, wpc, wtask, running,
                   last_dequeue, dequeued, enqueued>>
    /\ UNCHANGED <<pvars, bvars, nvars, svars, cvars>>

\* the rest of import_book_async: enqueue, then spawn process_import_queue
EnqueueAndSpawn(b) ==
    /\ b \in importing
    /\ importing' = importing \ {b}
    /\ tasks' = enqueue(tasks, b)
    /\ enqueued' = Append(enqueued, b)
    /\ wpc' = [wpc EXCEPT ![b] = "dequeue"]
    /\ UNCHANGED <<active_tasks, max_concurrent, next_book_id, wtask, running,
                   last_dequeue, dequeued>>
    /\ UNCHANGED <<pvars, bvars, nvars, svars, cvars>>

\* process_import_queue: queue.dequeue() and the match on its result
WorkerDequeue(w) ==
    /\ wpc[w] = "dequeue"
    /\ LET r == dequeue(tasks, active_tasks, max_concurrent)
       IN  /\ tasks' = r.tasks
           /\ last_dequeue' = Some([active_count |-> Cardinality(active_tasks),
                                    before |-> tasks, after |-> r.tasks,
                                    result |-> r.result])
           /\ IF IsSome(r.result)
              THEN /\ wtask' = [wtask EXCEPT ![w] = r.result]
                   /\ wpc' = [wpc EXCEPT ![w] = "mark"]
                   /\ dequeued' = Append(dequeued, Unwrap(r.result))
              ELSE /\ wpc' = [wpc EXCEPT ![w] = "sleep"]
                   /\ UNCHANGED <<wtask, dequeued>>
    /\ UNCHANGED <<active_tasks, max_concurrent, next_book_id, importing, running,
                   enqueued>>
    /\ UNCHANGED <<pvars, bvars, nvars, svars, cvars>>

\* process_import_queue: queue.mark_active(task), then the task that runs
\* process_single_import is spawned and the loop goes round
WorkerMarkActive(w) ==
    /\ wpc[w] = "mark"
    /\ active_tasks' = mark_active(active_tasks, Unwrap(wtask[w]))
    /\ running' = running \cup {Unwrap(wtask[w])}
    /\ wtask' = [wtask EXCEPT ![w] = None]
    /\ wpc' = [wpc EXCEPT ![w] = "dequeue"]
    /\ UNCHANGED <<tasks, max_concurrent, next_book_id, importing, last_dequeue,
                   dequeued, enqueued>>
    /\ UNCHANGED <<pvars, bvars, nvars, svars, cvars>>

\* process_import_queue after its sleep: queue.queue_size() == 0
WorkerCheckQueue(w) ==
    /\ wpc[w] = "sleep"
    /\ wpc' = [wpc EXCEPT ![w] = IF Len(tasks) = 0 THEN "check_active" ELSE "dequeue"]
    /\ UNCHANGED <<tasks, active_tasks, max_concurrent, next_book_id, importing,
                   wtask, running, last_dequeue, dequeued, enqueued>>
    /\ UNCHANGED <<pvars, bvars, nvars, svars, cvars>>

\* ... && queue.active_count() == 0: break, else continue
WorkerCheckActive(w) ==
    /\ wpc[w] = "check_active"
    /\ wpc' = [wpc EXCEPT ![w] = IF Cardinality(active_tasks) = 0 THEN "exited"
                                  ELSE "dequeue"]
    /\ UNCHANGED <<tasks, active_tasks, max_concurrent, next_book_id, importing,
                   wtask, running, last_dequeue, dequeued, enqueued>>
    /\ UNCHANGED <<pvars, bvars, nvars, svars, cvars>>

\* the spawned task: process_single_import has returned (Ok or Err), then
\* queue.mark_completed(book_id)
ImportTaskEnd(b) ==
    /\ b \in running
    /\ active_tasks' = mark_completed(active_tasks, b)
    /\ running' = running \ {b}
    /\ UNCHANGED <<tasks, max_concurrent, next_book_id, importing, wpc, wtask,
                   last_dequeue, dequeued, enqueued>>
    /\ UNCHANGED <<pvars, bvars, nvars, svars, cvars>>

\* an application whose queue was built with any max_concurrent from 1 up
InitQueue ==
    /\ InitPipelineVars
    /\ InitBuilderVars
    /\ InitNumberingVars
    /\ \E m \in 1..MaxConcurrent : ImportQueue_new(m)
    /\ InitSegmentBuilderVars
    /\ NoChapters
    /\ InitContentTypeVars

NextQueue ==
    \/ InsertBook
    \/ \E b \in 1..MaxBooks : EnqueueAndSpawn(b)
    \/ \E w \in Workers : WorkerDequeue(w)
    \/ \E w \in Workers : WorkerMarkActive(w)
    \/ \E w \in Workers : WorkerCheckQueue(w)
    \/ \E w \in Workers : WorkerCheckActive(w)
    \/ \E b \in 1..MaxBooks : ImportTaskEnd(b)
SpecQueue == InitQueue /\ [][NextQueue]_vars

\* The tokio runtime runs every spawned task: an import_book_async past its
\* INSERT goes on to enqueue and spawn, a process_import_queue loop takes its
\* next step (its sleep lasts one second), and process_single_import returns
\* Ok or Err, after which the spawned task calls mark_completed.  Nothing
\* obliges anybody to ask for a new import.
WorkerStep(w) ==
    \/ WorkerDequeue(w)
    \/ WorkerMarkActive(w)
    \/ WorkerCheckQueue(w)
    \/ WorkerCheckActive(w)
FairQueue ==
    /\ \A b \in 1..MaxBooks : WF_vars(EnqueueAndSpawn(b))
    /\ \A w \in Workers : WF_vars(WorkerStep(w))
    /\ \A b \in 1..MaxBooks : WF_vars(ImportTaskEnd(b))
SpecQueueFair == InitQueue /\ [][NextQueue]_vars /\ FairQueue

(***************************************************************************)
(* ReadingUnitBuilder                                                      *)
(***************************************************************************)
\* the book of the builder: ReadingUnitBuilder::new(1)
BookId == 1

\* format!("ru-{}-{}", book_id, unit_id)
unit_id_format(book_id, unit_id) == <<"ru", book_id, unit_id>>
\* format!("seg-{}-{}", book_id, chapter_id)
segment_id_format(book_id, chapter_id) == <<"seg", book_id, chapter_id>>

\* (total as f64 * 0.05) as usize and (total as f64 * 0.95) as usize
front_limit(total) == (total * 5) \div 100
back_limit(total) == (total * 95) \div 100

\* determine_content_type that looks at the position before the keywords
determine_content_type_position_first(seg, index, total) ==
    IF index < front_limit(total) /\ seg.length < 500 THEN Some("Frontmatter")
    ELSE IF index >= back_limit(total) THEN Some("Backmatter")
    ELSE IF /\ IsSome(seg.heading)
            /\ \E k \in copyright_keywords \cup toc_keywords \cup preface_keywords :
                 contains(to_lowercase(Unwrap(seg.heading)), k)
    THEN Some("Frontmatter")
    ELSE Some("Body")

determine_content_type(seg, index, total) ==
    IF /\ IsSome(seg.heading)
       /\ \E k \in copyright_keywords \cup toc_keywords \cup preface_keywords :
            contains(to_lowercase(Unwrap(seg.heading)), k)
    THEN Some("Frontmatter")
    ELSE IF index < front_limit(total) /\ seg.length < 500 THEN Some("Frontmatter")
    ELSE IF index >= back_limit(total) THEN Some("Backmatter")
    ELSE Some("Body")

\* create_reading_unit with the counter value it reads; the caller stores
\* unit_id + 1 back into next_unit_id
create_reading_unit(seg, level, parent_id, content_type, unit_id) ==
    [id |-> unit_id_format(BookId, unit_id),
     book_id |-> BookId,
     title |-> IF IsSome(seg.heading) THEN Unwrap(seg.heading)
               ELSE <<"unnamed chapter", seg.chapter_id>>,
     level |-> level,
     parent_id |-> parent_id,
     segment_ids |-> <<seg.id>>,
     start_block_id |-> seg.start_block_id,
     end_block_id |-> seg.end_block_id,
     source |-> IF IsSome(seg.toc_level) THEN "toc" ELSE "heuristic",
     content_type |-> content_type,
     summary |-> None]

\* Merge into the open unit without moving its end
merge_into_keep_end(unit, seg) ==
    [unit EXCEPT !.segment_ids = Append(@, seg.id)]

\* Merge into the open unit that takes "toc" from a merged segment
merge_into_retags(unit, seg) ==
    [unit EXCEPT !.segment_ids = Append(@, seg.id),
                 !.end_block_id = seg.end_block_id,
                 !.source = IF IsSome(seg.toc_level) THEN "toc" ELSE @]

\* Merge into the open unit
merge_into(unit, seg) ==
    [unit EXCEPT !.segment_ids = Append(@, seg.id),
                 !.end_block_id = seg.end_block_id]

\* the flush that drops the open unit
flush_dropped(units, cur) == units

\* current_unit.take() pushed to reading_units, if there is one
flush(units, cur) ==
    IF IsSome(cur) THEN Append(units, Unwrap(cur)) ELSE units

\* level.unwrap_or(1)
unit_level_of(level) == IF IsSome(level) THEN Unwrap(level) ELSE 1

\* parent_id_for that hands the parent to every unit
parent_id_for_any_level(unit_level, level_1_parent) == level_1_parent

\* parent_id of a new unit
parent_id_for(unit_level, level_1_parent) ==
    IF unit_level = 2 THEN level_1_parent ELSE None

\* next_level_1_parent without the level test
next_level_1_parent_every_unit(unit_level, new_id, level_1_parent) == Some(new_id)

\* next_level_1_parent that keeps the first level-1 unit
next_level_1_parent_first_only(unit_level, new_id, level_1_parent) ==
    IF unit_level = 1 /\ level_1_parent = None THEN Some(new_id) ELSE level_1_parent

\* current_level_1_parent after a CreateNew
next_level_1_parent(unit_level, new_id, level_1_parent) ==
    IF unit_level = 1 THEN Some(new_id) ELSE level_1_parent

\* the length check that lets a longer decision list through
length_mismatch_shorter_decisions(segs, decs) == Len(segs) > Len(decs)

\* segments.len() != decisions.len()
length_mismatch(segs, decs) == Len(segs) # Len(decs)

\* the counter that is read and never written back
next_unit_id_after_stuck(unit_id) == unit_id

\* self.next_unit_id.set(unit_id + 1)
next_unit_id_after(unit_id) == unit_id + 1

\* the Merge arm that drops a segment met with no open unit
merge_arm_drops_leading(cur, seg, content_type, unit_id) ==
    IF IsSome(cur) THEN Some(merge_into(Unwrap(cur), seg)) ELSE None

\* current_unit after the Merge arm: the open unit extended, or, with no open
\* unit, a level-1 unit without parent made of the segment
merge_arm(cur, seg, content_type, unit_id) ==
    IF IsSome(cur)
    THEN Some(merge_into(Unwrap(cur), seg))
    ELSE Some(create_reading_unit(seg, 1, None, content_type, unit_id))

\* ---- inputs of build
\* the segments a chapter at position k (1-based) of n can give
SegmentVariants(k, n) ==
    LET pos == IF n > 1 THEN ((k - 1) * 100) \div (n - 1) ELSE 50
        base == [id |-> segment_id_format(BookId, k), chapter_id |-> k,
                 position_ratio |-> pos, source_format |-> "Epub"]
    IN  {base @@ [heading |-> Some(<<"x">>), length |-> 1000, toc_level |-> None,
                  start_block_id |-> 10 * k + 1, end_block_id |-> 10 * k + 3],
         base @@ [heading |-> None, length |-> 100, toc_level |-> Some(2),
                  start_block_id |-> k, end_block_id |-> k],
         base @@ [heading |-> Some(<<"Copyright">>), length |-> 400,
                  toc_level |-> Some(1),
                  start_block_id |-> 10 * k + 1, end_block_id |-> 10 * k + 2]}
SegmentLists ==
    UNION {{s \in [1..n -> UNION {SegmentVariants(k, n) : k \in 1..n}] :
                \A k \in 1..n : s[k] \in SegmentVariants(k, n)} : n \in 0..MaxSegs}

DecisionVals ==
    {[decision |-> "Merge", reason |-> "r", level |-> None]} \cup
    {[decision |-> "CreateNew", reason |-> "r", level |-> l] :
        l \in {None, Some(1), Some(2)}}
DecisionLists == UNION {[1..n -> DecisionVals] : n \in 0..MaxSegs}

\* the arguments of the later calls on the same builder: one segment per
\* position, and the two decisions the counter can tell apart
RepeatSegmentLists ==
    {[k \in 1..n |->
        [id |-> segment_id_format(BookId, k), chapter_id |-> k, position_ratio |-> 50,
         source_format |-> "Epub", heading |-> Some(<<"x">>), length |-> 1000,
         toc_level |-> None, start_block_id |-> 10 * k + 1,
         end_block_id |-> 10 * k + 3]] : n \in 0..MaxSegs}
RepeatDecisionVals ==
    {[decision |-> "Merge", reason |-> "r", level |-> None],
     [decision |-> "CreateNew", reason |-> "r", level |-> None]}
RepeatDecisionLists == UNION {[1..n -> RepeatDecisionVals] : n \in 0..MaxSegs}

\* the unit id formatted by create_reading_unit, noted under the running call
record_issued(hist, id) == [hist EXCEPT ![Len(hist)].ids = Append(@, id)]

\* a build that starts its ids over
next_unit_id_on_entry_reset(unit_id) == 1

\* the counter when build is entered: build does not write it before the loop
next_unit_id_on_entry(unit_id) == unit_id

\* ---- build
\* build(segs, decs) is entered: the length check, then the locals
EnterBuild(segs, decs) ==
    /\ segments' = segs
    /\ decisions' = decs
    /\ IF length_mismatch(segs, decs)
       THEN /\ bpc' = "done"
            /\ build_result' = Some([ok |-> FALSE, err |-> "length mismatch"])
       ELSE /\ bpc' = "loop"
            /\ build_result' = None
    /\ idx' = 0
    /\ reading_units' = <<>>
    /\ current_unit' = None
    /\ current_level_1_parent' = None
    /\ builds' = builds + 1
    /\ issued' = Append(issued, [failed |-> length_mismatch(segs, decs), ids |-> <<>>])
    /\ next_unit_id' = next_unit_id_on_entry(next_unit_id)
    /\ UNCHANGED <<pvars, xvars>>

\* the first call on a new builder
StartBuild ==
    /\ bpc = "idle"
    /\ \E segs \in SegmentLists, decs \in DecisionLists : EnterBuild(segs, decs)

\* a later call on the same builder, after the previous one has returned
BuildAgain ==
    /\ bpc = "done"
    /\ builds < MaxBuilds
    /\ \E segs \in RepeatSegmentLists, decs \in RepeatDecisionLists :
        EnterBuild(segs, decs)

\* one iteration of the loop on a Merge decision
BuildMerge ==
    /\ bpc = "loop"
    /\ idx < Len(segments)
    /\ decisions[idx + 1].decision = "Merge"
    /\ LET seg == segments[idx + 1]
       IN  /\ current_unit' =
                merge_arm(current_unit, seg,
                          determine_content_type(seg, idx, Len(segments)),
                          next_unit_id)
           /\ IF IsSome(current_unit)
              THEN UNCHANGED <<next_unit_id, issued>>
              ELSE /\ next_unit_id' = next_unit_id_after(next_unit_id)
                   /\ issued' = IF IsSome(current_unit')
                                THEN record_issued(issued, Unwrap(current_unit').id)
                                ELSE issued
    /\ idx' = idx + 1
    /\ UNCHANGED <<bpc, segments, decisions, reading_units, current_level_1_parent,
                   build_result, builds>>
    /\ UNCHANGED <<pvars, xvars>>

\* one iteration of the loop on a CreateNew decision
BuildCreateNew ==
    /\ bpc = "loop"
    /\ idx < Len(segments)
    /\ decisions[idx + 1].decision = "CreateNew"
    /\ LET seg == segments[idx + 1]
           unit_level == unit_level_of(decisions[idx + 1].level)
           parent_id == parent_id_for(unit_level, current_level_1_parent)
           new_unit == create_reading_unit(seg, unit_level, parent_id,
                            determine_content_type(seg, idx, Len(segments)),
                            next_unit_id)
       IN  /\ reading_units' = flush(reading_units, current_unit)
           /\ current_level_1_parent' =
                next_level_1_parent(unit_level, new_unit.id, current_level_1_parent)
           /\ current_unit' = Some(new_unit)
           /\ issued' = record_issued(issued, new_unit.id)
    /\ next_unit_id' = next_unit_id_after(next_unit_id)
    /\ idx' = idx + 1
    /\ UNCHANGED <<bpc, segments, decisions, build_result, builds>>
    /\ UNCHANGED <<pvars, xvars>>

\* the loop is over: the last unit is saved and Ok(reading_units) returned
BuildReturn ==
    /\ bpc = "loop"
    /\ idx = Len(segments)
    /\ reading_units' = flush(reading_units, current_unit)
    /\ current_unit' = None
    /\ build_result' = Some([ok |-> TRUE, units |-> reading_units'])
    /\ bpc' = "done"
    /\ UNCHANGED <<next_unit_id, segments, decisions, idx, current_level_1_parent,
                   builds, issued>>
    /\ UNCHANGED <<pvars, xvars>>

NextBuild == StartBuild \/ BuildMerge \/ BuildCreateNew \/ BuildReturn
SpecBuild == Init /\ [][NextBuild]_vars

\* several build calls, one after the other, on one builder
NextBuilds == NextBuild \/ BuildAgain
SpecBuilds == Init /\ [][NextBuilds]_vars

(***************************************************************************)
(* SegmentBuilder                                                          *)
(***************************************************************************)
\* a query result: Ok(row) is [ok |-> TRUE, ...], Err(e) is [ok |-> FALSE]
QueryErr == [ok |-> FALSE]

\* get_chapter_id: the row of the chapter with this index, or the query's error
get_chapter_id(table, chapter_index) ==
    LET row == table[chapter_index + 1]
    IN  IF row.ok THEN [ok |-> TRUE, value |-> row.id]
        ELSE [ok |-> FALSE, err |-> "chapter id query failed"]

\* get_block_range that takes a chapter without blocks for an error
get_block_range_no_blocks_fails(table, chapter_id) ==
    LET result == table[chapter_id]
    IN  IF result.ok /\ IsSome(result.min) /\ IsSome(result.max)
        THEN [ok |-> TRUE, value |-> <<Unwrap(result.min), Unwrap(result.max)>>]
        ELSE [ok |-> FALSE, err |-> "block range query failed"]

\* get_block_range: the match on the MIN(id), MAX(id) row
get_block_range(table, chapter_id) ==
    LET result == table[chapter_id]
    IN  IF result.ok /\ IsSome(result.min) /\ IsSome(result.max)
        THEN [ok |-> TRUE, value |-> <<Unwrap(result.min), Unwrap(result.max)>>]
        ELSE IF result.ok /\ result.min = None /\ result.max = None
        THEN [ok |-> TRUE, value |-> <<chapter_id, chapter_id>>]
        ELSE IF result.ok
        THEN [ok |-> FALSE, err |-> "block data inconsistent"]
        ELSE [ok |-> FALSE, err |-> "block range query failed"]

\* the characters of the runs of a block
RECURSIVE run_chars(_)
run_chars(runs) == IF runs = <<>> THEN 0 ELSE Len(Head(runs)) + run_chars(Tail(runs))

\* calculate_content_length: the characters of the blocks that are not headings
RECURSIVE calculate_content_length(_)
calculate_content_length(blocks) ==
    IF blocks = <<>> THEN 0
    ELSE (IF Head(blocks).block_type # "heading" THEN run_chars(Head(blocks).runs)
          ELSE 0) + calculate_content_length(Tail(blocks))

\* the runs of a block joined
RECURSIVE run_text(_)
run_text(runs) == IF runs = <<>> THEN <<>> ELSE Head(runs) \o run_text(Tail(runs))

\* str::trim
RECURSIVE trim(_)
trim(t) ==
    IF t = <<>> THEN t
    ELSE IF Head(t) = " " THEN trim(Tail(t))
    ELSE IF t[Len(t)] = " " THEN trim(SubSeq(t, 1, Len(t) - 1))
    ELSE t

\* the text of the first heading block that is not blank
RECURSIVE first_heading_block(_)
first_heading_block(blocks) ==
    IF blocks = <<>> THEN None
    ELSE IF /\ Head(blocks).block_type = "heading"
            /\ trim(run_text(Head(blocks).runs)) # <<>>
         THEN Some(trim(run_text(Head(blocks).runs)))
         ELSE first_heading_block(Tail(blocks))

\* extract_heading: the chapter title unless empty or the placeholder, else
\* the first heading block
extract_heading(chapter) ==
    IF chapter.title # <<>> /\ chapter.title # <<"unnamed chapter">>
    THEN Some(chapter.title)
    ELSE first_heading_block(chapter.blocks)

\* index as f64 / (total_chapters - 1) as f64, or 0.5, in hundredths
segment_position_ratio(index, total_chapters) ==
    IF total_chapters > 1 THEN (index * 100) \div (total_chapters - 1) ELSE 50

\* the Segment of a chapter
make_segment(chapter, index, total_chapters, chapter_id, range) ==
    [id |-> segment_id_format(BookId, chapter_id),
     chapter_id |-> chapter_id,
     heading |-> extract_heading(chapter),
     length |-> calculate_content_length(chapter.blocks),
     position_ratio |-> segment_position_ratio(index, total_chapters),
     toc_level |-> None,
     source_format |-> "Epub",
     start_block_id |-> range[1],
     end_block_id |-> range[2]]

\* ---- inputs of build_segments
\* the chapters a parser gives
ChapterVariants ==
    {[title |-> <<"x">>,
      blocks |-> <<[block_type |-> "paragraph", runs |-> <<<<"a", "b">>, <<"c">>>>]>>],
     [title |-> <<>>,
      blocks |-> <<[block_type |-> "heading", runs |-> <<<<" ">>>>],
                   [block_type |-> "heading", runs |-> <<<<" ", "H">>, <<" ">>>>],
                   [block_type |-> "paragraph", runs |-> <<<<"a">>>>]>>],
     [title |-> <<"unnamed chapter">>, blocks |-> <<>>]}
ChapterLists == UNION {[1..n -> ChapterVariants] : n \in 0..MaxChapters}

\* the id the chapters table gives the chapter with this index
ChapterIdOf(index) == 11 + index
\* what the chapters query can give for an index: no row or an error, or the id
ChapterRows(index) == {QueryErr, [ok |-> TRUE, id |-> ChapterIdOf(index)]}
\* what the blocks query can give for a chapter id: an error, no block
\* (both NULL), or the least and greatest block id
BlockRows(chapter_id) ==
    {QueryErr,
     [ok |-> TRUE, min |-> None, max |-> None],
     [ok |-> TRUE, min |-> Some(10 * chapter_id + 1), max |-> Some(10 * chapter_id + 4)]}

\* ---- build_segments
\* build_segments is entered on a list of chapters and a database
StartBuildSegments ==
    /\ spc = "idle"
    /\ \E chs \in ChapterLists :
        /\ chapters' = chs
        /\ \E ct \in [1..Len(chs) -> UNION {ChapterRows(i) : i \in 0..MaxChapters}] :
            /\ \A k \in 1..Len(chs) : ct[k] \in ChapterRows(k - 1)
            /\ chapters_table' = ct
        /\ \E bt \in [{ChapterIdOf(k - 1) : k \in 1..Len(chs)} ->
                        UNION {BlockRows(ChapterIdOf(i)) : i \in 0..MaxChapters}] :
            /\ \A id \in DOMAIN bt : bt[id] \in BlockRows(id)
            /\ blocks_table' = bt
    /\ spc' = "loop"
    /\ sidx' = 0
    /\ seg_list' = <<>>
    /\ seg_result' = None
    /\ UNCHANGED <<pvars, bvars, nvars, qvars, cvars>>

\* one iteration of the loop: the two lookups, each returning its error
\* from build_segments (?), then the push of the Segment
BuildSegmentsStep ==
    /\ spc = "loop"
    /\ sidx < Len(chapters)
    /\ LET chapter_id == get_chapter_id(chapters_table, sidx)
       IN  IF ~chapter_id.ok
           THEN /\ seg_result' = Some([ok |-> FALSE, err |-> chapter_id.err])
                /\ spc' = "done"
                /\ UNCHANGED <<sidx, seg_list>>
           ELSE LET range == get_block_range(blocks_table, chapter_id.value)
                IN  IF ~range.ok
                    THEN /\ seg_result' = Some([ok |-> FALSE, err |-> range.err])
                         /\ spc' = "done"
                         /\ UNCHANGED <<sidx, seg_list>>
                    ELSE /\ seg_list' =
                              Append(seg_list,
                                     make_segment(chapters[sidx + 1], sidx,
                                                  Len(chapters), chapter_id.value,
                                                  range.value))
                         /\ sidx' = sidx + 1
                         /\ UNCHANGED <<spc, seg_result>>
    /\ UNCHANGED <<chapters, chapters_table, blocks_table>>
    /\ UNCHANGED <<pvars, bvars, nvars, qvars, cvars>>

\* the loop is over: Ok(segments)
BuildSegmentsReturn ==
    /\ spc = "loop"
    /\ sidx = Len(chapters)
    /\ seg_result' = Some([ok |-> TRUE, segments |-> seg_list])
    /\ spc' = "done"
    /\ UNCHANGED <<chapters, chapters_table, blocks_table, sidx, seg_list>>
    /\ UNCHANGED <<pvars, bvars, nvars, qvars, cvars>>

NextSegments == StartBuildSegments \/ BuildSegmentsStep \/ BuildSegmentsReturn
SpecSegments == Init /\ [][NextSegments]_vars

(***************************************************************************)
(* determine_content_type on any seed segment and position                 *)
(***************************************************************************)
\* headings of seed segments: none, without keyword, with a keyword of each
\* of the three lists
SeedHeadings ==
    {None, Some(<<"x">>), Some(<<"Chapter", " ", "1">>), Some(<<"Copyright">>),
     Some(<<"x", "Contents">>), Some(<<"xuyan">>)}
SeedLengths == {100, 499, 500, 1000}

\* ReadingUnitBuilder::determine_content_type(segment, index, total)
DetermineContentType ==
    /\ pc = "ready"
    /\ \E h \in SeedHeadings, len \in SeedLengths, total \in 1..MaxTotal :
        \E index \in 0..(total - 1) :
            LET seg == MkSegment(h, len, segment_position_ratio(index, total), None)
            IN  /\ segment' = seg
                /\ ct_index' = index
                /\ ct_total' = total
                /\ ct_result' = Some(determine_content_type(seg, index, total))
    /\ pc' = "typed"
    /\ UNCHANGED <<engine, weights, fallback, prev_segment, features, score,
                   decision, fb_decision>>
    /\ UNCHANGED <<bvars, nvars, qvars, svars>>

NextContentType == DetermineContentType
SpecContentType == Init /\ [][NextContentType]_vars

(***************************************************************************)
(* Claims about the pure pipeline                                          *)
(***************************************************************************)
IsStrong(seg) == IsSome(seg.heading) /\ strong_heading_regex(Unwrap(seg.heading))
HasKeyword(seg) ==
    /\ IsSome(seg.heading)
    /\ \E k \in copyright_keywords \cup toc_keywords \cup preface_keywords :
        contains(to_lowercase(Unwrap(seg.heading)), k)
Piped == pc = "piped" /\ weights = DefaultWeights /\ engine = DefaultEngine
BothCreateNew ==
    /\ Unwrap(fb_decision).decision = "CreateNew"
    /\ Unwrap(decision).decision = "CreateNew"

\* C1 as stated: for every segment whose heading matches the strong
\* chapter-heading pattern, FallbackStrategy.apply and the full pipeline with
\* default weights and thresholds both return CreateNew, whatever the length,
\* position, TOC level, remaining heading text and preceding segment.
C1_StrongAlwaysCreateNew ==
    (Piped /\ IsStrong(segment)) => BothCreateNew

\* C1 amended: for every segment whose heading matches the strong pattern and
\* holds no copyright / table-of-contents / preface keyword, and that has TOC
\* level 1 or 2 or a length of at least 800, both paths return CreateNew.
C1_StrongBodyCreateNew ==
    (/\ Piped
     /\ IsStrong(segment)
     /\ ~HasKeyword(segment)
     /\ \/ segment.toc_level \in {Some(1), Some(2)}
        \/ segment.length >= 800)
    => BothCreateNew

\* a strong, keyword-free heading without TOC level decided by the score
\* (gray zone, long enough) after another strong heading
C1_Witness ==
    /\ Piped
    /\ IsStrong(segment)
    /\ ~HasKeyword(segment)
    /\ segment.toc_level = None
    /\ segment.length = 800
    /\ segment.position_ratio = 100
    /\ IsSome(prev_segment)
    /\ score.total_score = -280
    /\ BothCreateNew

Decided == pc = "decided"

\* C3 as stated: make_decision returns CreateNew with level 1 for every input
\* whose features have toc_feature = 1 and content_feature = Body, whatever
\* the score argument and the segment length.
C3_TocLevel1AnyScore ==
    (Decided /\ features.toc_feature = Some(1) /\ features.content_feature = "Body")
    => (Unwrap(decision).decision = "CreateNew" /\ Unwrap(decision).level = Some(1))

\* C3 amended: make_decision returns CreateNew with level 1 for every input
\* whose features have toc_feature = 1 and content_feature = Body and whose
\* score has no content_score or a content_score below 5.0, whatever
\* total_score (including >= merge_threshold) and the segment length.
C3_TocLevel1NotForced ==
    (/\ Decided
     /\ features.toc_feature = Some(1)
     /\ features.content_feature = "Body"
     /\ (score.content_score = None \/ Unwrap(score.content_score) < 50))
    => (Unwrap(decision).decision = "CreateNew" /\ Unwrap(decision).level = Some(1))

C3_Witness ==
    /\ Decided
    /\ engine = DefaultEngine
    /\ features.toc_feature = Some(1)
    /\ features.content_feature = "Body"
    /\ score.content_score = Some(49)
    /\ score.total_score >= 300
    /\ segment.length < 800
    /\ Unwrap(decision).decision = "CreateNew"
    /\ Unwrap(decision).level = Some(1)

\* C4: make_decision returns Merge with no level for every input whose score
\* has content_score >= 5.0, whatever total_score, the TOC level, the heading
\* strength and the segment length.
C4_ForcedMerge ==
    (Decided /\ score.content_score # None /\ Unwrap(score.content_score) >= 50)
    => (Unwrap(decision).decision = "Merge" /\ Unwrap(decision).level = None)

C4_Witness ==
    /\ Decided
    /\ score.content_score = Some(50)
    /\ score.total_score = -1000
    /\ features.toc_feature = Some(1)
    /\ features.content_feature = "Body"
    /\ features.heading_feature = "Strong"
    /\ segment.length = 6000
    /\ Unwrap(decision).decision = "Merge"

\* no rule 1-3 applies and new_threshold < total_score < merge_threshold
InGrayZone ==
    /\ (score.content_score = None \/ Unwrap(score.content_score) < 50)
    /\ ~(features.toc_feature = Some(1)
         /\ features.content_feature \notin {"Copyright", "Toc", "Preface"})
    /\ features.toc_feature # Some(2)
    /\ engine.new_threshold < score.total_score
    /\ score.total_score < engine.merge_threshold

\* C5: in the gray zone the decision is Merge exactly when
\* segment.length < gray_zone_length and CreateNew otherwise; with the
\* defaults, length 799 gives Merge and length 800 gives CreateNew.
C5_GrayZoneBoundary ==
    (Decided /\ InGrayZone)
    => /\ Unwrap(decision).decision =
            (IF segment.length < engine.gray_zone_length THEN "Merge" ELSE "CreateNew")
       /\ (engine = DefaultEngine /\ segment.length = 799)
            => Unwrap(decision).decision = "Merge"
       /\ (engine = DefaultEngine /\ segment.length = 800)
            => Unwrap(decision).decision = "CreateNew"

C5_Witness ==
    /\ Decided
    /\ InGrayZone
    /\ engine = DefaultEngine
    /\ segment.length = 800
    /\ Unwrap(decision).decision = "CreateNew"

Dimensions == {"toc", "heading", "length", "content", "position", "continuity"}
DimensionScore(sc, d) ==
    CASE d = "toc" -> sc.toc_score
      [] d = "heading" -> sc.heading_score
      [] d = "length" -> sc.length_score
      [] d = "content" -> sc.content_score
      [] d = "position" -> sc.position_score
      [] d = "continuity" -> sc.continuity_score
RECURSIVE WeightedSum(_, _, _)
WeightedSum(D, sc, w) ==
    IF D = {} THEN 0
    ELSE LET d == CHOOSE x \in D : TRUE
         IN  Unwrap(DimensionScore(sc, d)) * w[d] + WeightedSum(D \ {d}, sc, w)
\* the dimensions with a score and a configured weight
Contributing(sc, w) ==
    {d \in Dimensions : IsSome(DimensionScore(sc, d)) /\ d \in DOMAIN w}

\* C6: after calculate_score and after calculate_total with any weight table,
\* total_score is the sum over the dimensions whose score is present of score
\* times configured weight (a dimension the table has no weight for adds
\* nothing); an absent dimension contributes 0, and calculate_score leaves toc
\* absent exactly without TOC level and continuity exactly without numbering.
C6_TotalIsWeightedSum ==
    /\ pc \in {"scored", "totalled"}
        => score.total_score = WeightedSum(Contributing(score, weights), score, weights)
    /\ pc = "scored"
        => /\ IsSome(score.toc_score) <=> IsSome(features.toc_feature)
           /\ IsSome(score.continuity_score) <=> IsSome(features.numbering_continuity)
           /\ IsSome(score.heading_score) /\ IsSome(score.length_score)
           /\ IsSome(score.content_score) /\ IsSome(score.position_score)

C6_Witness ==
    /\ pc = "totalled"
    /\ weights # DefaultWeights
    /\ DOMAIN weights = Dimensions
    /\ score.toc_score = None
    /\ score.position_score = Some(25)
    /\ score.continuity_score = Some(-30)
    /\ score.heading_score = Some(25)
    /\ score.length_score = None
    /\ score.content_score = None
    /\ score.total_score = 25 * 5 + 25 * 3 - 30 * 7

(***************************************************************************)
(* Claims about ReadingUnitBuilder.build                                   *)
(***************************************************************************)
\* build has returned Ok
BuildOk == bpc = "done" /\ IsSome(build_result) /\ Unwrap(build_result).ok
Output == Unwrap(build_result).units
\* every unit the call holds: emitted, still open, returned
UnitsInHand ==
    {reading_units[i] : i \in 1..Len(reading_units)}
    \cup (IF IsSome(current_unit) THEN {Unwrap(current_unit)} ELSE {})
    \cup (IF BuildOk THEN {Output[i] : i \in 1..Len(Output)} ELSE {})
SegmentOfId(id) == CHOOSE sg \in {segments[i] : i \in 1..Len(segments)} : sg.id = id
\* the index of the segment that seeded unit u
SeedIndex(u) == CHOOSE i \in 1..Len(segments) : segments[i].id = u.segment_ids[1]
\* the unit of the output seeded by segment i
UnitSeededBy(i) ==
    CHOOSE u \in {Output[j] : j \in 1..Len(Output)} : u.segment_ids[1] = segments[i].id
\* decision i is a CreateNew whose level, None counting as 1, is lvl
IsCreateNewAt(i, lvl) ==
    /\ decisions[i].decision = "CreateNew"
    /\ \/ decisions[i].level = Some(lvl)
       \/ lvl = 1 /\ decisions[i].level = None
Level1Before(i) == {k \in 1..(i - 1) : IsCreateNewAt(k, 1)}
Max(S) == CHOOSE x \in S : \A y \in S : x >= y

C7_BlockRange ==
    \A u \in UnitsInHand :
        /\ u.end_block_id = SegmentOfId(u.segment_ids[Len(u.segment_ids)]).end_block_id
        /\ u.start_block_id = SegmentOfId(u.segment_ids[1]).start_block_id

C7_Witness ==
    /\ BuildOk
    /\ Len(Output) = 1
    /\ Len(Output[1].segment_ids) = 3
    /\ decisions[1].decision = "CreateNew"
    /\ Output[1].end_block_id = segments[3].end_block_id
    /\ segments[3].end_block_id # segments[1].end_block_id
    /\ segments[3].end_block_id # segments[2].end_block_id
    /\ Output[1].start_block_id # Output[1].end_block_id

\* index 1 and every index decided CreateNew
Boundaries ==
    {i \in 1..Len(segments) : i = 1 \/ decisions[i].decision = "CreateNew"}
KthBoundary(k) ==
    CHOOSE b \in Boundaries : Cardinality({x \in Boundaries : x <= b}) = k
BoundaryAfter(b) == Min({x \in Boundaries : x > b} \cup {Len(segments) + 1})

\* C8: the units of the output correspond one-to-one and in order to the
\* boundary indices, and each unit's segment_ids are the ids of the segments
\* from its boundary up to just before the next one, in source order.
C8_GroupedByBoundary ==
    BuildOk =>
        /\ Len(Output) = Cardinality(Boundaries)
        /\ \A k \in 1..Len(Output) :
            LET b == KthBoundary(k)
            IN  Output[k].segment_ids =
                    [j \in 1..(BoundaryAfter(b) - b) |-> segments[b + j - 1].id]

C8_Witness ==
    /\ BuildOk
    /\ Len(segments) = 3
    /\ decisions[1].decision = "Merge"
    /\ decisions[2].decision = "CreateNew"
    /\ decisions[3].decision = "Merge"
    /\ Len(Output) = 2
    /\ Output[1].segment_ids = <<segments[1].id>>
    /\ Output[2].segment_ids = <<segments[2].id, segments[3].id>>

\* C9: for every CreateNew at level 2 that comes after a CreateNew at level 1
\* (a CreateNew without level is one, the caller's default), the new unit's
\* parent_id is the id of the unit opened by the most recent such CreateNew.
C9_ParentIsLastLevel1 ==
    BuildOk =>
        \A i \in 1..Len(segments) :
            (IsCreateNewAt(i, 2) /\ Level1Before(i) # {}) =>
                UnitSeededBy(i).parent_id = Some(UnitSeededBy(Max(Level1Before(i))).id)

C9_Witness ==
    /\ BuildOk
    /\ Len(segments) = 3
    /\ decisions[1] = [decision |-> "CreateNew", reason |-> "r", level |-> Some(1)]
    /\ decisions[2] = [decision |-> "CreateNew", reason |-> "r", level |-> Some(1)]
    /\ decisions[3] = [decision |-> "CreateNew", reason |-> "r", level |-> Some(2)]
    /\ Output[3].parent_id = Some(Output[2].id)
    /\ Output[2].id # Output[1].id

\* C10: every level-1 unit of build has parent_id = None, whether opened by a
\* CreateNew at level 1, by a CreateNew without level or by a leading Merge.
C10_Level1NoParent ==
    \A u \in UnitsInHand : u.level = 1 => u.parent_id = None

C10_Witness ==
    /\ BuildOk
    /\ Len(segments) = 3
    /\ decisions[1].decision = "Merge"
    /\ decisions[2] = [decision |-> "CreateNew", reason |-> "r", level |-> None]
    /\ decisions[3] = [decision |-> "CreateNew", reason |-> "r", level |-> Some(1)]
    /\ Len(Output) = 3
    /\ \A i \in 1..3 : Output[i].level = 1 /\ Output[i].parent_id = None

\* C11: build returns an error exactly when segments and decisions differ in
\* length, and then no unit is made (no list, no unit id used); on lists of
\* equal length the loop always has a step to take and ends in Ok.
C11_ErrIffLengthMismatch ==
    /\ bpc = "done" =>
         LET r == Unwrap(build_result)
         IN  /\ r.ok <=> Len(segments) = Len(decisions)
             /\ ~r.ok => /\ DOMAIN r = {"ok", "err"}
                         /\ reading_units = <<>>
                         /\ current_unit = None
                         /\ next_unit_id = 1
    /\ bpc = "loop" =>
         /\ Len(segments) = Len(decisions)
         /\ ENABLED (BuildMerge \/ BuildCreateNew \/ BuildReturn)

\* an error return on two segments and three decisions
C11_Witness ==
    /\ bpc = "done"
    /\ ~Unwrap(build_result).ok
    /\ Len(segments) = 2
    /\ Len(decisions) = 3

\* C12: the units of the first build of a builder for book b carry the ids
\* ru-b-1, ru-b-2, ... in output order, so no two units share an id.
C12_IdsCountFromOne ==
    BuildOk /\ builds = 1 =>
        /\ \A i \in 1..Len(Output) : Output[i].id = <<"ru", BookId, i>>
        /\ \A i, j \in 1..Len(Output) : Output[i].id = Output[j].id => i = j

\* three units, the first opened by a leading Merge
C12_Witness ==
    /\ BuildOk
    /\ builds = 1
    /\ Len(Output) = 3
    /\ decisions[1].decision = "Merge"
    /\ Output[3].id = <<"ru", BookId, 3>>

\* the three results make_decision may give, reason aside
DecisionShapes ==
    {<<"Merge", None>>, <<"CreateNew", Some(1)>>, <<"CreateNew", Some(2)>>}

\* C13: make_decision always returns, and what it returns is one of
\* (Merge, no level), (CreateNew, level 1), (CreateNew, level 2): a CreateNew
\* always carries a level and the level is 1 or 2.
C13_DecisionShape ==
    Decided =>
        /\ IsSome(decision)
        /\ <<Unwrap(decision).decision, Unwrap(decision).level>> \in DecisionShapes

\* a gray-zone CreateNew whose level comes from a weak heading, on a segment
\* whose TOC level is neither 1 nor 2
C13_Witness ==
    /\ Decided
    /\ features.toc_feature = Some(3)
    /\ features.heading_feature = "Weak"
    /\ InGrayZone
    /\ segment.length = 800
    /\ Unwrap(decision).decision = "CreateNew"
    /\ Unwrap(decision).level = Some(2)

(***************************************************************************)
(* Claims about numbering continuity                                       *)
(***************************************************************************)
Numbered == pc = "numbered"

\* the section number a heading was written from, if there is a heading
\* and it has one
WrittenNumber(h) == IF IsSome(h) THEN Unwrap(h).nums ELSE None

\* n + 1 on the integers, in the two-digit base-65536 writing of n
PlusOne(n) == IF n[2] = 65535 THEN <<n[1] + 1, 0>> ELSE <<n[1], n[2] + 1>>

\* equal length, all components but the last identical, last = last + 1
Continuous(prev, curr) ==
    /\ Len(prev) = Len(curr)
    /\ \A k \in 1..(Len(curr) - 1) : prev[k] = curr[k]
    /\ curr[Len(curr)] = PlusOne(prev[Len(prev)])

\* C14: numbering continuity is Some(true) exactly when both headings have a
\* leading section number, of the same length, equal in all components but
\* the last, the current last being the previous last + 1; it is Some(false)
\* for any other pair of section numbers and None when either heading (or
\* the previous segment) has none.
C14_ContinuityIffSuccessor ==
    Numbered =>
        LET P == WrittenNumber(num_prev)
            C == WrittenNumber(num_curr)
            r == Unwrap(continuity)
        IN  /\ ~r.panicked
            /\ r.value = IF IsSome(P) /\ IsSome(C)
                          THEN Some(Continuous(Unwrap(P), Unwrap(C)))
                          ELSE None

(***************************************************************************)
(* Claims about ImportQueue                                                *)
(***************************************************************************)
\* ImportQueue::active_count
active_count == Cardinality(active_tasks)

\* C15: in every reachable state of the queue, whatever the interleaving of
\* the worker loops (dequeue, then mark_active; mark_completed when a task
\* ends), active_count() <= max_concurrent.
C15_ActiveWithinLimit == active_count <= max_concurrent

\* C16: the tasks come out of dequeue in the order enqueue took them in (what
\* was handed out followed by what is pending is what was enqueued), and a
\* dequeue called with active_count >= max_concurrent returns None and
\* leaves the pending queue as it was.
C16_Fifo ==
    /\ enqueued = dequeued \o tasks
    /\ IsSome(last_dequeue) =>
         LET d == Unwrap(last_dequeue)
         IN  /\ d.active_count >= max_concurrent =>
                    d.result = None /\ d.after = d.before
             /\ IsSome(d.result) =>
                    d.before # <<>> /\ d.result = Some(Head(d.before))
                                   /\ d.after = Tail(d.before)

\* two tasks enqueued out of rowid order, the first handed out and active,
\* and a dequeue just refused at the limit with the other still pending
C16_Witness ==
    /\ max_concurrent = 1
    /\ enqueued = <<2, 1>>
    /\ dequeued = <<2>>
    /\ active_tasks = {2}
    /\ IsSome(last_dequeue)
    /\ Unwrap(last_dequeue).active_count = 1
    /\ Unwrap(last_dequeue).result = None
    /\ Unwrap(last_dequeue).before = <<1>>
    /\ tasks = <<1>>

(***************************************************************************)
(* Claims about SegmentBuilder                                             *)
(***************************************************************************)
\* the chapter-id lookup or the block-range lookup of the chapter at this
\* index fails
LookupFails(index) ==
    \/ ~chapters_table[index + 1].ok
    \/ ~blocks_table[chapters_table[index + 1].id].ok

\* the chapter at this index is in the database and has no block
HasNoBlocks(index) ==
    /\ chapters_table[index + 1].ok
    /\ blocks_table[chapters_table[index + 1].id] =
            [ok |-> TRUE, min |-> None, max |-> None]

\* C17: build_segments returns an error, and no segment list, exactly when
\* the chapter-id or the block-range lookup fails for some chapter, and it
\* stops at the first such chapter; a chapter without blocks is no failure
\* and gets the range (chapter_id, chapter_id); when no lookup fails the
\* result is one Segment per chapter, in the order of the chapters.
C17_ErrOnFailedLookup ==
    spc = "done" =>
        LET r == Unwrap(seg_result)
            failing == {i \in 0..(Len(chapters) - 1) : LookupFails(i)}
        IN  /\ r.ok <=> failing = {}
            /\ ~r.ok => /\ DOMAIN r = {"ok", "err"}
                        /\ sidx = Min(failing)
            /\ r.ok =>
                 /\ Len(r.segments) = Len(chapters)
                 /\ \A k \in 1..Len(chapters) :
                      /\ r.segments[k].chapter_id = chapters_table[k].id
                      /\ r.segments[k].heading = extract_heading(chapters[k])
                      /\ HasNoBlocks(k - 1) =>
                            /\ r.segments[k].start_block_id = chapters_table[k].id
                            /\ r.segments[k].end_block_id = chapters_table[k].id

\* two chapters, the first without blocks, the second with a failing
\* block-range lookup: an error after one Segment was already built
C17_Witness ==
    /\ spc = "done"
    /\ Len(chapters) = 2
    /\ HasNoBlocks(0)
    /\ chapters_table[2].ok
    /\ ~blocks_table[chapters_table[2].id].ok
    /\ ~Unwrap(seg_result).ok
    /\ Len(seg_list) = 1

(***************************************************************************)
(* Claims about the units open during build                                *)
(***************************************************************************)
\* the level-1 units of the output before position i
Level1UnitsBefore(i) == {j \in 1..(i - 1) : Output[j].level = 1}

\* C19: a level-2 unit has parent_id = None only if no level-1 unit comes
\* before it in the output; when some level-1 unit was opened before it, by
\* a CreateNew or by a leading Merge, its parent_id is the id of the last
\* such unit.
C19_ParentIsLastLevel1Unit ==
    BuildOk =>
        \A i \in 1..Len(Output) :
            (Output[i].level = 2 /\ Level1UnitsBefore(i) # {}) =>
                Output[i].parent_id = Some(Output[Max(Level1UnitsBefore(i))].id)

\* C20: during build no unit is open only before the first segment is
\* consumed; a Merge on segment 0 opens a level-1 unit without parent made
\* of that segment alone, and a Merge on any later segment leaves the open
\* unit longer by that segment, with no new unit id drawn.
C20_NoUnitOpenOnlyAtStart ==
    bpc = "loop" =>
        /\ idx = 0 <=> current_unit = None
        /\ (idx = 1 /\ decisions[1].decision = "Merge") =>
                /\ Unwrap(current_unit).level = 1
                /\ Unwrap(current_unit).parent_id = None
                /\ Unwrap(current_unit).segment_ids = <<segments[1].id>>
                /\ Unwrap(current_unit).id = <<"ru", BookId, 1>>
        /\ (idx >= 2 /\ decisions[idx].decision = "Merge") =>
                LET ids == Unwrap(current_unit).segment_ids
                IN  /\ Len(ids) >= 2
                    /\ ids[Len(ids)] = segments[idx].id
                    /\ ids[Len(ids) - 1] = segments[idx - 1].id
                    /\ next_unit_id <= idx

\* three Merge decisions consumed: one unit, opened by the first
C20_Witness ==
    /\ bpc = "loop"
    /\ idx = 3
    /\ \A k \in 1..3 : decisions[k].decision = "Merge"
    /\ Len(Unwrap(current_unit).segment_ids) = 3
    /\ Unwrap(current_unit).level = 1
    /\ next_unit_id = 2

(***************************************************************************)
(* Claims about determine_content_type                                     *)
(***************************************************************************)
Typed == pc = "typed"

\* C21: the content type of a seed segment is, in this order of priority,
\* Frontmatter if its heading holds a copyright, table-of-contents or preface
\* keyword; Frontmatter if index < floor(0.05 * count) and length < 500;
\* Backmatter if index >= floor(0.95 * count); Body otherwise.  Of 10
\* segments, a seed without keyword is Backmatter at index 9 and Body at 5.
C21_ContentTypePriority ==
    Typed =>
        /\ ct_result =
            Some(Some(IF HasKeyword(segment) THEN "Frontmatter"
                      ELSE IF ct_index < (5 * ct_total) \div 100 /\ segment.length < 500
                           THEN "Frontmatter"
                      ELSE IF ct_index >= (95 * ct_total) \div 100 THEN "Backmatter"
                      ELSE "Body"))
        /\ (ct_total = 10 /\ ~HasKeyword(segment)) =>
                /\ ct_index = 9 => ct_result = Some(Some("Backmatter"))
                /\ ct_index = 5 => ct_result = Some(Some("Body"))

\* of 10 segments, a seed with a keyword at index 9: Frontmatter, not Backmatter
C21_Witness ==
    /\ Typed
    /\ ct_total = 10
    /\ ct_index = 9
    /\ segment.heading = Some(<<"x", "Contents">>)
    /\ ct_result = Some(Some("Frontmatter"))

\* C30: a seed segment at index 0 is never given Backmatter, whatever the
\* segment count (from 1 up), its heading and its length.
C30_FirstNeverBackmatter ==
    (Typed /\ ct_index = 0) => ct_result # Some(Some("Backmatter"))

(***************************************************************************)
(* Claims about the fields of a unit                                       *)
(***************************************************************************)
\* the fields of a unit a Merge must leave alone
KeptByMerge ==
    {"id", "book_id", "title", "level", "parent_id", "start_block_id", "source",
     "content_type", "summary"}

\* the next step of the loop merges into the open unit
MergeIntoOpenUnit ==
    /\ bpc = "loop"
    /\ idx < Len(segments)
    /\ decisions[idx + 1].decision = "Merge"
    /\ IsSome(current_unit)

\* C22: the source of a unit is "toc" exactly when its seed segment has a TOC
\* level, "heuristic" otherwise; a Merge into the open unit changes only its
\* segment_ids and end_block_id, so source, title, level, parent_id,
\* content_type and start_block_id stay as the seed segment set them.
C22_SourceFromSeed ==
    /\ [](\A u \in UnitsInHand :
            LET seed == SegmentOfId(u.segment_ids[1])
            IN  /\ u.source = "toc" <=> IsSome(seed.toc_level)
                /\ u.source \in {"toc", "heuristic"}
                /\ u.start_block_id = seed.start_block_id
                /\ u.content_type =
                        determine_content_type(seed, SeedIndex(u) - 1, Len(segments)))
    /\ [][MergeIntoOpenUnit =>
            /\ IsSome(current_unit')
            /\ \A f \in KeptByMerge :
                    Unwrap(current_unit')[f] = Unwrap(current_unit)[f]
            /\ reading_units' = reading_units]_vars

\* one unit seeded by a segment without TOC level that took in a segment
\* with one: still "heuristic"
C22_Witness ==
    /\ BuildOk
    /\ Len(Output) = 1
    /\ Len(Output[1].segment_ids) = 2
    /\ segments[1].toc_level = None
    /\ segments[2].toc_level = Some(1)
    /\ Output[1].source = "heuristic"
    /\ Output[1].end_block_id = segments[2].end_block_id

(***************************************************************************)
(* Claims about the rules of the decision cascade                          *)
(***************************************************************************)
\* C23: with content_score absent or below 5.0 and toc_feature = 2,
\* make_decision returns CreateNew with level 2, whatever total_score (at or
\* above merge_threshold included), the heading strength, the content
\* feature and the segment length.
C23_TocLevel2BeforeScores ==
    (/\ Decided
     /\ (score.content_score = None \/ Unwrap(score.content_score) < 50)
     /\ features.toc_feature = Some(2)) =>
        /\ Unwrap(decision).decision = "CreateNew"
        /\ Unwrap(decision).level = Some(2)

\* TOC level 2 on a short segment with a strong heading, a metadata content
\* feature and a total above merge_threshold
C23_Witness ==
    /\ Decided
    /\ score.content_score = Some(49)
    /\ features.toc_feature = Some(2)
    /\ features.heading_feature = "Strong"
    /\ features.content_feature = "Copyright"
    /\ score.total_score > engine.merge_threshold
    /\ segment.length = 0
    /\ Unwrap(decision).decision = "CreateNew"
    /\ Unwrap(decision).level = Some(2)

(***************************************************************************)
(* Claims about FallbackStrategy                                           *)
(***************************************************************************)
FallenBack == pc = "fallen back"

\* C24: FallbackStrategy.apply gives CreateNew when the heading matches the
\* strong-chapter pattern; else Merge when length < gray_zone_length (800
\* unless set otherwise); else CreateNew.  Without heading the length alone
\* decides, and a strong heading gives CreateNew below the length too.
C24_FallbackRules ==
    FallenBack =>
        /\ Unwrap(fb_decision).decision =
                IF IsStrong(segment) THEN "CreateNew"
                ELSE IF segment.length < fallback.gray_zone_length THEN "Merge"
                ELSE "CreateNew"
        /\ segment.heading = None =>
                (Unwrap(fb_decision).decision = "Merge"
                    <=> segment.length < fallback.gray_zone_length)
        /\ (IsStrong(segment) /\ segment.length < 800) =>
                Unwrap(fb_decision).decision = "CreateNew"

\* a strong heading on a segment shorter than the default 800
C24_Witness ==
    /\ FallenBack
    /\ fallback = DefaultFallback
    /\ segment.heading = Some(<<"DI", "YI", "ZHANG">>)
    /\ segment.length = 100
    /\ Unwrap(fb_decision).decision = "CreateNew"

\* no rule before the score thresholds applies
ReachesScoreRules ==
    /\ (score.content_score = None \/ Unwrap(score.content_score) < 50)
    /\ ~(features.toc_feature = Some(1)
         /\ features.content_feature \notin {"Copyright", "Toc", "Preface"})
    /\ features.toc_feature # Some(2)

\* the decision comes from the rule total_score <= new_threshold
ByNewThreshold ==
    /\ ReachesScoreRules
    /\ score.total_score < engine.merge_threshold
    /\ score.total_score <= engine.new_threshold

\* C25: when make_decision returns CreateNew through the rule
\* total_score <= new_threshold or through the gray-zone rule, the level is
\* 2 exactly when the heading strength is Weak and 1 when it is Strong or
\* None, whatever the segment is.
C25_LevelFromHeadingStrength ==
    (/\ Decided
     /\ ByNewThreshold \/ (InGrayZone /\ segment.length >= engine.gray_zone_length)) =>
        /\ Unwrap(decision).decision = "CreateNew"
        /\ Unwrap(decision).level = Some(2) <=> features.heading_feature = "Weak"
        /\ Unwrap(decision).level = Some(1) <=>
                features.heading_feature \in {"Strong", "None"}

\* total_score below new_threshold, a weak heading strength, on a segment of
\* length 0 whose own heading is not a weak one
C25_Witness ==
    /\ Decided
    /\ ByNewThreshold
    /\ features.toc_feature = None
    /\ features.heading_feature = "Weak"
    /\ segment.heading = Some(<<"x">>)
    /\ segment.length = 0
    /\ Unwrap(decision).level = Some(2)

(***************************************************************************)
(* Claims about the composed pipeline under any weight table               *)
(***************************************************************************)
Metadata == {"Copyright", "Toc", "Preface"}
Composed == pc = "piped"

\* C26: in the composed pipeline every segment whose content feature is
\* Copyright, Toc or Preface decides Merge, whatever its TOC level, heading
\* strength, length, position and the weights; no segment reaches the TOC
\* level-1 rule with a metadata content feature.
C26_MetadataAlwaysMerges ==
    (Composed /\ features.content_feature \in Metadata) =>
        /\ score.content_score = Some(50)
        /\ forced_merge(score)
        /\ Unwrap(decision).decision = "Merge"
        /\ Unwrap(decision).level = None

\* a preface with a strong chapter heading at TOC level 1, scored under a
\* weight table whose content weight is negative
C26_Witness ==
    /\ Composed
    /\ features.content_feature = "Preface"
    /\ features.toc_feature = Some(1)
    /\ features.heading_feature = "Strong"
    /\ segment.length = 6000
    /\ weights # DefaultWeights
    /\ score.total_score < 0
    /\ Unwrap(decision).decision = "Merge"

\* C27: for features produced by extract_features,
\* is_consecutive_strong_heading implies is_after_strong_heading and a
\* Strong heading strength, and the position score is never negative.
C27_ConsecutiveImpliesAfter ==
    Composed =>
        /\ features.is_consecutive_strong_heading =>
                /\ features.is_after_strong_heading
                /\ features.heading_feature = "Strong"
        /\ Unwrap(score.position_score) >= 0

\* two strong chapter headings in a row: penalty and bonus cancel
C27_Witness ==
    /\ Composed
    /\ features.is_consecutive_strong_heading
    /\ features.is_after_strong_heading
    /\ features.position_in_book = 50
    /\ score.position_score = Some(0)

(***************************************************************************)
(* Claims about several build calls on one builder                         *)
(***************************************************************************)
\* the unit ids issued so far, in creation order
RECURSIVE IdsOfCalls(_)
IdsOfCalls(n) == IF n = 0 THEN <<>> ELSE IdsOfCalls(n - 1) \o issued[n].ids
IssuedIds == IdsOfCalls(Len(issued))
\* the counter written into a unit id
CounterOf(id) == id[3]

\* C28: across any sequence of build calls on one builder, failed calls
\* included, no unit id is issued twice, the counters of the ids strictly
\* increase in creation order, and a call that fails on a length mismatch
\* issues no id.
C28_IdsNeverReissued ==
    /\ \A i, j \in 1..Len(IssuedIds) :
            i < j => /\ IssuedIds[i] # IssuedIds[j]
                     /\ CounterOf(IssuedIds[i]) < CounterOf(IssuedIds[j])
    /\ \A i \in 1..Len(IssuedIds) : CounterOf(IssuedIds[i]) < next_unit_id
    /\ \A c \in 1..Len(issued) : issued[c].failed => issued[c].ids = <<>>

\* a call that issued two ids, a call that failed, and a third call whose
\* first id carries the counter 3
C28_Witness ==
    /\ Len(issued) = 3
    /\ Len(issued[1].ids) = 2
    /\ issued[2].failed
    /\ ~issued[3].failed
    /\ Len(issued[3].ids) > 0
    /\ issued[3].ids[1] = <<"ru", BookId, 3>>

(***************************************************************************)
(* Claims about the progress of the import queue                           *)
(***************************************************************************)
InQueue(b) == \E i \in 1..Len(tasks) : tasks[i] = b
WasEnqueued(b) == \E i \in 1..Len(enqueued) : enqueued[i] = b
WasDequeued(b) == \E i \in 1..Len(dequeued) : dequeued[i] = b
\* the task of book b was dequeued, marked active by the loop that held it,
\* and removed from the active set by the task that ran its import
Completed(b) ==
    /\ WasDequeued(b)
    /\ ~InQueue(b)
    /\ \A w \in Workers : wtask[w] # Some(b)
    /\ b \notin active_tasks
    /\ b \notin running
\* nothing is pending and no started import is still running
Drained ==
    /\ tasks = <<>>
    /\ \A w \in Workers : wtask[w] = None
    /\ running = {}
AllLoopsOver == \A w \in Workers : wpc[w] \in {"unspawned", "exited"}
\* some enqueued task is not through yet, or some loop still runs
Busy ==
    \/ \E b \in 1..MaxBooks : WasEnqueued(b) /\ ~Completed(b)
    \/ ~AllLoopsOver

\* C29: every task enqueued by import_book_async is eventually dequeued,
\* marked active and then removed from the active set by mark_completed;
\* and once the queue is drained, active_count returns to 0 and every
\* process_import_queue loop terminates.
C29_EveryImportCompletes ==
    Busy ~> /\ \A b \in 1..MaxBooks : WasEnqueued(b) => Completed(b)
            /\ Drained
            /\ active_count = 0
            /\ AllLoopsOver

\* both books went through a queue that runs one import at a time, and both
\* loops are over
C29_Witness ==
    /\ max_concurrent = 1
    /\ dequeued = <<1, 2>>
    /\ Completed(1)
    /\ Completed(2)
    /\ Drained
    /\ active_count = 0
    /\ \A w \in Workers : wpc[w] = "exited"

====
